---- MODULE Spec2Model ----
(***************************************************************************)
(* Documentation index holder, rebuild coordinator and cross-process lock  *)
(* record of krakend/mcp-server (tools/docsearch.go).                      *)
(*                                                                         *)
(* The model is a set of goroutines (threads), each belonging to one       *)
(* operating-system process.  Processes share the data directory (lock     *)
(* record, published index directory, temporary index directory, schema    *)
(* version marker, cache metadata); each process owns one indexHolder.     *)
(* Every file-system call and every access to the holder is one step.      *)
(***************************************************************************)
EXTENDS Integers, Sequences, FiniteSets, TLC

(***************************************************************************)
(* Bounds of the model.                                                    *)
(***************************************************************************)
\* calls of SearchDocumentation over all goroutines
MaxSearches == 2
\* calls of RefreshDocumentationIndex over all goroutines
MaxRefreshes == 2
\* calls of CloseDocSearch over all goroutines
MaxCloses == 1
\* rebuilds (temporary indexes created) over all processes
MaxBuilds == 2
\* index handles opened over all processes
MaxGens == 3

(***************************************************************************)
(* Program constants.                                                      *)
(***************************************************************************)
\* lockTimeout, in milliseconds
lockTimeout == 5000
\* lockRetryWait, in milliseconds
lockRetryWait == 500
\* indexing.IndexSchemaVersion
IndexSchemaVersion == 2

\* process ids: two processes that run the server, one id of no process
Procs == {1, 2}
DeadPid == 3
Pids == Procs \cup {DeadPid}

\* content of the lock record: no file, a file that does not parse as a
\* process id, or a process id
NoFile == 0
Garbage == -1
LockContents == {NoFile, Garbage} \cup Pids

\* no generation (a nil *Index)
NoGen == 0

\* a directory: absent, complete (a closed, fully written index of build
\* number build), partial (created and partly written) or removing (partly
\* removed by an interrupted RemoveAll).  Build 0 is the embedded index.
Absent == [st |-> "absent", build |-> 0]
Complete(b) == [st |-> "complete", build |-> b]
Partial(b) == [st |-> "partial", build |-> b]
Removing(b) == [st |-> "removing", build |-> b]

VARIABLES
  \* data directory, shared by all processes
  lockRec,      \* search/index.lock
  holds,        \* holds[p]: acquireLock has returned success in process p and
                \* releaseLock has not returned since (history)
  indexDir,     \* search/index
  tmpDir,       \* search/index.tmp
  verMarker,    \* search/.index_version (0: missing or unreadable)
  cacheFresh,   \* docs/cache.meta exists and is younger than cacheTTL
  \* operating system
  alive,        \* alive[p]: process p is running
  \* one indexHolder per process
  mgr,          \* mgr[p]: indexMgr # nil
  current,      \* current[p]: indexMgr.current
  wg,           \* wg[p]: counter of indexMgr.wg
  refreshMu,    \* refreshMu[p]: goroutine holding indexMgr.refreshMu, or "none"
  \* index handles
  gens,         \* gens[g]: handle g: opening process, build of the directory
                \* it was opened on, number of Close calls, state of the
                \* background goroutine that closes it
  nextBuild,    \* number of the next temporary index
  \* goroutines
  th,           \* th[t]: process, program counter and locals of goroutine t
  calls         \* calls[op]: calls of operation op so far

vars == <<lockRec, holds, indexDir, tmpDir, verMarker, cacheFresh, alive, mgr,
          current, wg, refreshMu, gens, nextBuild, th, calls>>

fsVars == <<indexDir, tmpDir, verMarker, cacheFresh>>
lockVars == <<lockRec, holds>>
holderVars == <<mgr, current, wg, refreshMu, gens, nextBuild>>

Threads == DOMAIN th
Gens == 1..Len(gens)

pcOf(t) == th[t].pc
procOf(t) == th[t].proc
Running(t) == alive[th[t].proc]

\* isProcessRunning(pid): signal 0 reaches the process
isProcessRunning(pid) == pid \in Procs /\ alive[pid]

\* a goroutine before it has run anything
NewThread(p, ops) ==
  [proc |-> p, ops |-> ops, pc |-> "idle", op |-> "none",
   lret |-> "idle", iret |-> "idle", lread |-> NoFile, elapsed |-> 0,
   lerr |-> FALSE, ierr |-> FALSE, igen |-> NoGen, extracted |-> FALSE,
   gen |-> NoGen, force |-> FALSE, locked |-> FALSE, build |-> 0,
   xerr |-> "nil", cerr |-> FALSE, rerr |-> FALSE, res |-> "none",
   \* history: whether the lock record was stale when acquireLock was
   \* called, whether another goroutine has changed the record since, the
   \* newest build indexChunks had published when the running search was
   \* called, the processes that were at rest when InitializeDocSearch was
   \* called, and whether the running InitializeDocSearch found the local
   \* index corrupted (bleve.Open failed on it), kept until
   \* extractEmbeddedIndex has created the directory
   stale0 |-> FALSE, intf |-> FALSE, floor |-> 0, rest |-> {},
   corrupt |-> FALSE]

Min(a, b) == IF a < b THEN a ELSE b

(***************************************************************************)
(* acquireLock, cleanStaleLock, releaseLock                                *)
(***************************************************************************)

\* call acquireLock from a goroutine, continuing at ret when it returns
CallAcquire(r, ret) == [r EXCEPT !.pc = "aq_read", !.lret = ret]

\* acquireLock returns err (TRUE: an error)
ReturnAcquire(r, err) == [r EXCEPT !.pc = r.lret, !.lerr = err]

\* variant: acquireLock gives up on the first error of cleanStaleLock
lockHeld_NoRetry(r) == ReturnAcquire(r, TRUE)

\* cleanStaleLock returned an error: time out or back off
lockHeld(r) ==
  IF r.elapsed >= lockTimeout THEN ReturnAcquire(r, TRUE)
  ELSE [r EXCEPT !.pc = "aq_sleep"]

\* history: goroutine t changes the lock record under the goroutines that
\* are inside the retry loop of acquireLock or have just returned from it
Touch(thr, t) ==
  [u \in DOMAIN thr |->
     IF u # t /\ thr[u].pc \in {"cs_read", "cs_check", "cs_remove",
                                "aq_sleep", "aq_write", "in_locked",
                                "rf_locked"}
       THEN [thr[u] EXCEPT !.intf = TRUE] ELSE thr[u]]

\* history: acquireLock returns success in this step of goroutine t
Acquired(t) == th'[t].pc = th[t].lret /\ ~th'[t].lerr

Holds(t) == IF Acquired(t) THEN [holds EXCEPT ![procOf(t)] = TRUE] ELSE holds

\* variant: acquireLock enters the retry loop whatever the record names
acquireLock_read_Loop(t) ==
  /\ pcOf(t) = "aq_read" /\ Running(t)
  /\ th' = [th EXCEPT ![t] =
              [@ EXCEPT !.pc = "cs_read", !.elapsed = 0,
                        !.stale0 = lockRec \in Pids
                                     /\ ~isProcessRunning(lockRec),
                        !.intf = FALSE]]
  /\ UNCHANGED <<calls, lockVars, alive, fsVars, holderVars>>

\* acquireLock: "Check if we already have the lock": the pid parsed from the
\* record is ourPID
acquireLock_read(t) ==
  /\ pcOf(t) = "aq_read" /\ Running(t)
  /\ th' = [th EXCEPT ![t] =
              IF lockRec = procOf(t)
                THEN [ReturnAcquire(@, FALSE) EXCEPT !.lread = lockRec]
              ELSE [@ EXCEPT !.pc = "cs_read", !.elapsed = 0,
                             !.stale0 = lockRec \in Pids
                                          /\ ~isProcessRunning(lockRec),
                             !.intf = FALSE]]
  /\ holds' = Holds(t)
  /\ UNCHANGED <<calls, lockRec, alive, fsVars, holderVars>>

\* cleanStaleLock: read and parse the lock file
cleanStaleLock_read(t) ==
  /\ pcOf(t) = "cs_read" /\ Running(t)
  /\ th' = [th EXCEPT ![t] =
              IF lockRec = NoFile THEN [@ EXCEPT !.pc = "aq_write"]
              ELSE IF lockRec = Garbage THEN [@ EXCEPT !.pc = "cs_remove"]
              ELSE [@ EXCEPT !.pc = "cs_check", !.lread = lockRec]]
  /\ UNCHANGED <<calls, lockVars, alive, fsVars, holderVars>>

\* cleanStaleLock: isProcessRunning(pid)
cleanStaleLock_check(t) ==
  /\ pcOf(t) = "cs_check" /\ Running(t)
  /\ th' = [th EXCEPT ![t] =
              IF isProcessRunning(@.lread) THEN lockHeld(@)
              ELSE [@ EXCEPT !.pc = "cs_remove"]]
  /\ UNCHANGED <<calls, lockVars, alive, fsVars, holderVars>>

\* variant: cleanStaleLock leaves a stale record in place and reports the
\* lock as held
cleanStaleLock_remove_Keep(t) ==
  /\ pcOf(t) = "cs_remove" /\ Running(t)
  /\ th' = [th EXCEPT ![t] = lockHeld(@)]
  /\ UNCHANGED <<calls, lockVars, alive, fsVars, holderVars>>

\* cleanStaleLock: os.Remove(lockPath); an error (no such file) is reported
\* to acquireLock like a held lock
cleanStaleLock_remove(t) ==
  /\ pcOf(t) = "cs_remove" /\ Running(t)
  /\ IF lockRec = NoFile
       THEN /\ th' = [th EXCEPT ![t] = lockHeld(@)]
            /\ UNCHANGED lockRec
       ELSE /\ lockRec' = NoFile
            /\ th' = Touch([th EXCEPT ![t].pc = "aq_write"], t)
  /\ UNCHANGED <<calls, holds, alive, fsVars, holderVars>>

\* acquireLock: time.Sleep(lockRetryWait); the elapsed time grows by the
\* backoff or, when the goroutine is delayed, by more
acquireLock_sleep(t) ==
  /\ pcOf(t) = "aq_sleep" /\ Running(t)
  /\ \E e \in {Min(th[t].elapsed + lockRetryWait, lockTimeout), lockTimeout} :
       th' = [th EXCEPT ![t] = [@ EXCEPT !.pc = "cs_read", !.elapsed = e]]
  /\ UNCHANGED <<calls, lockVars, alive, fsVars, holderVars>>

\* acquireLock: os.WriteFile(lockPath, ourPID); the reads and the write of
\* the record are taken to succeed
acquireLock_write(t) ==
  /\ pcOf(t) = "aq_write" /\ Running(t)
  /\ lockRec' = procOf(t)
  /\ th' = Touch([th EXCEPT ![t] = ReturnAcquire(@, FALSE)], t)
  /\ holds' = Holds(t)
  /\ UNCHANGED <<calls, alive, fsVars, holderVars>>

acquireLock(t) ==
  \/ acquireLock_read(t)
  \/ cleanStaleLock_read(t)
  \/ cleanStaleLock_check(t)
  \/ cleanStaleLock_remove(t)
  \/ acquireLock_sleep(t)
  \/ acquireLock_write(t)

\* releaseLock returns err to CloseDocSearch, whose result is closeErr or,
\* when that is nil, the error of releaseLock
ReturnRelease(r, err) ==
  [r EXCEPT !.pc = "cl_ret", !.rerr = err,
            !.res = IF r.cerr THEN "closeErr"
                    ELSE IF err THEN "releaseErr" ELSE "ok"]

\* releaseLock: read the lock file and compare its pid with os.Getpid();
\* a file that does not parse as a pid passes the check (err # nil)
releaseLock_read(t) ==
  /\ pcOf(t) = "rl_read" /\ Running(t)
  /\ \E fault \in BOOLEAN :
       th' = [th EXCEPT ![t] =
                IF lockRec = NoFile THEN ReturnRelease(@, FALSE)
                ELSE IF fault THEN ReturnRelease(@, TRUE)
                ELSE IF lockRec \in Pids /\ lockRec # procOf(t)
                  THEN ReturnRelease(@, FALSE)
                ELSE [@ EXCEPT !.pc = "rl_remove"]]
  /\ holds' = IF th'[t].pc = "cl_ret" /\ ~th'[t].rerr
                THEN [holds EXCEPT ![procOf(t)] = FALSE] ELSE holds
  /\ UNCHANGED <<calls, lockRec, alive, fsVars, holderVars>>

\* releaseLock: os.Remove(lockPath), a missing file is not an error
releaseLock_remove(t) ==
  /\ pcOf(t) = "rl_remove" /\ Running(t)
  /\ \E fault \in BOOLEAN :
       IF fault /\ lockRec # NoFile
         THEN /\ th' = [th EXCEPT ![t] = ReturnRelease(@, TRUE)]
              /\ UNCHANGED <<lockRec, holds>>
         ELSE /\ lockRec' = NoFile
              /\ th' = Touch([th EXCEPT ![t] = ReturnRelease(@, FALSE)], t)
              /\ holds' = [holds EXCEPT ![procOf(t)] = FALSE]
  /\ UNCHANGED <<calls, alive, fsVars, holderVars>>

releaseLock(t) ==
  \/ releaseLock_read(t)
  \/ releaseLock_remove(t)

(***************************************************************************)
(* File-system and index-library primitives                                *)
(***************************************************************************)

\* os.RemoveAll(dir) removes the entries of a directory one by one: first
\* step (some entries removed) and last step (the directory is gone)
RemoveAllBegin(d) == IF d.st = "absent" THEN d ELSE Removing(d.build)
RemoveAllEnd(d) == Absent

\* getIndexVersion(): the version in the marker, 0 when missing or unreadable
getIndexVersion == verMarker

\* bleve.Open(dir) can succeed on a complete directory only
CanOpen(d) == d.st = "complete" /\ Len(gens) < MaxGens

\* the handle bleve.Open(dir) returns to process p
NewGen(p, d) == [proc |-> p, build |-> d.build, closes |-> 0,
                 cleanup |-> "none", swapped |-> FALSE]

(***************************************************************************)
(* InitializeDocSearch, extractEmbeddedIndex                               *)
(***************************************************************************)

\* process q has completed InitializeDocSearch and runs no operation
AtRest(q) ==
  /\ alive[q] /\ current[q] # NoGen
  /\ \A u \in Threads : th[u].proc = q => th[u].pc = "idle"

CallInit(r, ret) == [r EXCEPT !.pc = "in_start", !.iret = ret,
                              !.extracted = FALSE, !.corrupt = FALSE,
                              !.rest = {q \in Procs : AtRest(q)}]

ReturnInit(r, err) == [r EXCEPT !.pc = r.iret, !.ierr = err,
                                !.corrupt = FALSE]

\* InitializeDocSearch: create the holder if needed, call acquireLock
InitializeDocSearch_start(t) ==
  /\ pcOf(t) = "in_start" /\ Running(t)
  /\ mgr' = [mgr EXCEPT ![procOf(t)] = TRUE]
  /\ th' = [th EXCEPT ![t] = CallAcquire(@, "in_locked")]
  /\ UNCHANGED <<calls, lockVars, alive, fsVars, current, wg, refreshMu, gens,
                 nextBuild>>

\* InitializeDocSearch: after acquireLock, os.Stat(indexPath)
InitializeDocSearch_stat(t) ==
  /\ pcOf(t) = "in_locked" /\ Running(t)
  /\ th' = [th EXCEPT ![t] =
              IF @.lerr THEN ReturnInit(@, TRUE)
              ELSE IF indexDir.st # "absent" THEN [@ EXCEPT !.pc = "in_ver"]
              ELSE [@ EXCEPT !.pc = "ex_mkdir"]]
  /\ UNCHANGED <<calls, lockVars, alive, fsVars, holderVars>>

\* variant: InitializeDocSearch opens the local index whatever its version
InitializeDocSearch_version_Any(t) ==
  /\ pcOf(t) = "in_ver" /\ Running(t)
  /\ th' = [th EXCEPT ![t].pc = "in_open"]
  /\ UNCHANGED <<calls, lockVars, alive, fsVars, holderVars>>

\* InitializeDocSearch: compare getIndexVersion() with the expected version
InitializeDocSearch_version(t) ==
  /\ pcOf(t) = "in_ver" /\ Running(t)
  /\ th' = [th EXCEPT ![t].pc =
              IF getIndexVersion # IndexSchemaVersion THEN "in_rm"
              ELSE "in_open"]
  /\ UNCHANGED <<calls, lockVars, alive, fsVars, holderVars>>

\* variant: InitializeDocSearch returns the error of bleve.Open on the local
\* index
InitializeDocSearch_open_Fatal(t) ==
  /\ pcOf(t) = "in_open" /\ Running(t)
  /\ \/ /\ CanOpen(indexDir)
        /\ gens' = Append(gens, NewGen(procOf(t), indexDir))
        /\ th' = [th EXCEPT ![t] = [@ EXCEPT !.pc = "in_store",
                                             !.igen = Len(gens) + 1]]
     \/ /\ UNCHANGED gens
        /\ th' = [th EXCEPT ![t] = ReturnInit(@, TRUE)]
  /\ UNCHANGED <<calls, lockVars, alive, fsVars, mgr, current, wg, refreshMu,
                 nextBuild>>

\* InitializeDocSearch: bleve.Open(indexPath), of the local index or of the
\* extracted one; a local index that does not open is removed, an extracted
\* one that does not open is an error
InitializeDocSearch_open(t) ==
  /\ pcOf(t) = "in_open" /\ Running(t)
  /\ \/ /\ CanOpen(indexDir)
        /\ gens' = Append(gens, NewGen(procOf(t), indexDir))
        /\ th' = [th EXCEPT ![t] = [@ EXCEPT !.pc = "in_store",
                                             !.igen = Len(gens) + 1]]
     \/ /\ UNCHANGED gens
        /\ th' = [th EXCEPT ![t] =
                    IF @.extracted THEN ReturnInit(@, TRUE)
                    ELSE [@ EXCEPT !.pc = "in_rm", !.corrupt = TRUE]]
  /\ UNCHANGED <<calls, lockVars, alive, fsVars, mgr, current, wg, refreshMu,
                 nextBuild>>

\* variant: InitializeDocSearch removes its lock record when it has opened
\* the index
InitializeDocSearch_store_Release(t) ==
  /\ pcOf(t) = "in_store" /\ Running(t)
  /\ current' = [current EXCEPT ![procOf(t)] = th[t].igen]
  /\ th' = [th EXCEPT ![t] = ReturnInit(@, FALSE)]
  /\ lockRec' = IF lockRec = procOf(t) THEN NoFile ELSE lockRec
  /\ UNCHANGED <<calls, holds, alive, fsVars, mgr, wg, refreshMu, gens,
                 nextBuild>>

\* InitializeDocSearch: indexMgr.current.Store(&wrapped), return nil
InitializeDocSearch_store(t) ==
  /\ pcOf(t) = "in_store" /\ Running(t)
  /\ current' = [current EXCEPT ![procOf(t)] = th[t].igen]
  /\ th' = [th EXCEPT ![t] = ReturnInit(@, FALSE)]
  /\ UNCHANGED <<calls, lockVars, alive, fsVars, mgr, wg, refreshMu, gens,
                 nextBuild>>

\* InitializeDocSearch: os.RemoveAll(indexPath) of a mismatching or
\* corrupted index; its error is not looked at and the removal is taken to
\* complete
InitializeDocSearch_remove(t) ==
  /\ \/ /\ pcOf(t) = "in_rm"
        /\ indexDir' = RemoveAllBegin(indexDir)
        /\ th' = [th EXCEPT ![t].pc = "in_rm2"]
     \/ /\ pcOf(t) = "in_rm2"
        /\ indexDir' = RemoveAllEnd(indexDir)
        /\ th' = [th EXCEPT ![t].pc = "in_rmver"]
  /\ Running(t)
  /\ UNCHANGED <<calls, lockVars, alive, tmpDir, verMarker, cacheFresh, holderVars>>

\* InitializeDocSearch: os.Remove(indexVersionFile)
InitializeDocSearch_removeVersion(t) ==
  /\ pcOf(t) = "in_rmver" /\ Running(t)
  /\ verMarker' = 0
  /\ th' = [th EXCEPT ![t].pc = "ex_mkdir"]
  /\ UNCHANGED <<calls, lockVars, alive, indexDir, tmpDir, cacheFresh, holderVars>>

\* extractEmbeddedIndex: os.MkdirAll(indexPath)
extractEmbeddedIndex_mkdir(t) ==
  /\ pcOf(t) = "ex_mkdir" /\ Running(t)
  /\ \E fault \in BOOLEAN :
       IF fault
         THEN /\ th' = [th EXCEPT ![t] = ReturnInit(@, TRUE)]
              /\ UNCHANGED indexDir
         ELSE /\ indexDir' = IF indexDir.st = "absent" THEN Partial(0)
                             ELSE indexDir
              /\ th' = [th EXCEPT ![t] = [@ EXCEPT !.pc = "ex_files",
                                                   !.corrupt = FALSE]]
  /\ UNCHANGED <<calls, lockVars, alive, tmpDir, verMarker, cacheFresh, holderVars>>

\* extractEmbeddedDir: write the embedded files into indexPath one by one.
\* It fails when the directory is gone or on a write error, leaving the files
\* written so far; files written into a directory that holds another build
\* leave a mixture
extractEmbeddedDir(t) ==
  /\ pcOf(t) = "ex_files" /\ Running(t)
  /\ \E fault \in BOOLEAN :
       IF indexDir.st = "absent" \/ fault
         THEN /\ indexDir' = IF indexDir.st = "complete"
                               THEN Partial(indexDir.build) ELSE indexDir
              /\ th' = [th EXCEPT ![t] = ReturnInit(@, TRUE)]
         ELSE /\ indexDir' = IF indexDir.st = "removing" THEN indexDir
                             ELSE IF indexDir.build = 0 THEN Complete(0)
                             ELSE Partial(indexDir.build)
              /\ th' = [th EXCEPT ![t].pc = "ex_docs"]
  /\ UNCHANGED <<calls, lockVars, alive, tmpDir, verMarker, cacheFresh, holderVars>>

\* extractEmbeddedIndex: write docs/llms-full.txt and docs/cache.meta when
\* the binary embeds them
extractEmbeddedIndex_docs(t) ==
  /\ pcOf(t) = "ex_docs" /\ Running(t)
  /\ \E out \in {"fail", "nometa", "meta"} :
       /\ cacheFresh' = IF out = "meta" THEN TRUE ELSE cacheFresh
       /\ th' = [th EXCEPT ![t] =
                   IF out = "fail" THEN ReturnInit(@, TRUE)
                   ELSE [@ EXCEPT !.pc = "ex_ver"]]
  /\ UNCHANGED <<calls, lockVars, alive, indexDir, tmpDir, verMarker, holderVars>>

\* extractEmbeddedIndex: writeIndexVersion(), a failure is only logged
extractEmbeddedIndex_version(t) ==
  /\ pcOf(t) = "ex_ver" /\ Running(t)
  /\ \E fault \in BOOLEAN :
       verMarker' = IF fault THEN verMarker ELSE IndexSchemaVersion
  /\ th' = [th EXCEPT ![t] = [@ EXCEPT !.pc = "in_open", !.extracted = TRUE]]
  /\ UNCHANGED <<calls, lockVars, alive, indexDir, tmpDir, cacheFresh, holderVars>>

InitializeDocSearch(t) ==
  \/ InitializeDocSearch_start(t)
  \/ InitializeDocSearch_stat(t)
  \/ InitializeDocSearch_version(t)
  \/ InitializeDocSearch_open(t)
  \/ InitializeDocSearch_store(t)
  \/ InitializeDocSearch_remove(t)
  \/ InitializeDocSearch_removeVersion(t)
  \/ extractEmbeddedIndex_mkdir(t)
  \/ extractEmbeddedDir(t)
  \/ extractEmbeddedIndex_docs(t)
  \/ extractEmbeddedIndex_version(t)

(***************************************************************************)
(* indexChunks                                                             *)
(***************************************************************************)

\* indexChunks returns err ("nil", or the step that failed) to
\* refreshDocumentationIndex
ReturnIndex(r, err) == [r EXCEPT !.pc = "rf_indexed", !.xerr = err]

\* indexChunks: os.RemoveAll(tempIndexPath) of a leftover temporary index,
\* os.MkdirAll of its parent
indexChunks_start(t) ==
  /\ pcOf(t) = "ic_start" /\ Running(t)
  /\ tmpDir' = Absent
  /\ th' = [th EXCEPT ![t].pc = "ic_new"]
  /\ UNCHANGED <<calls, lockVars, alive, indexDir, verMarker, cacheFresh, holderVars>>

\* variant: the new index is created at indexPath instead of tempIndexPath
indexChunks_new_InPlace(t) ==
  /\ pcOf(t) = "ic_new" /\ Running(t)
  /\ \/ /\ nextBuild <= MaxBuilds
        /\ indexDir' = Partial(nextBuild)
        /\ nextBuild' = nextBuild + 1
        /\ th' = [th EXCEPT ![t] = [@ EXCEPT !.pc = "ic_batch",
                                             !.build = nextBuild]]
     \/ /\ th' = [th EXCEPT ![t] = ReturnIndex(@, "new")]
        /\ UNCHANGED <<indexDir, nextBuild>>
  /\ UNCHANGED <<calls, lockVars, alive, tmpDir, verMarker, cacheFresh, mgr,
                 current, wg, refreshMu, gens>>

\* indexChunks: bleve.New(tempIndexPath, mapping), which needs the path to
\* be free
indexChunks_new(t) ==
  /\ pcOf(t) = "ic_new" /\ Running(t)
  /\ \/ /\ tmpDir.st = "absent" /\ nextBuild <= MaxBuilds
        /\ tmpDir' = Partial(nextBuild)
        /\ nextBuild' = nextBuild + 1
        /\ th' = [th EXCEPT ![t] = [@ EXCEPT !.pc = "ic_batch",
                                             !.build = nextBuild]]
     \/ /\ th' = [th EXCEPT ![t] = ReturnIndex(@, "new")]
        /\ UNCHANGED <<tmpDir, nextBuild>>
  /\ UNCHANGED <<calls, lockVars, alive, indexDir, verMarker, cacheFresh, mgr,
                 current, wg, refreshMu, gens>>

\* variant: a failed batch leaves the temporary index behind
indexChunks_batch_KeepTemp(t) ==
  /\ pcOf(t) = "ic_batch" /\ Running(t)
  /\ \E fault \in BOOLEAN :
       th' = [th EXCEPT ![t] = IF fault THEN ReturnIndex(@, "batch")
                               ELSE [@ EXCEPT !.pc = "ic_close"]]
  /\ UNCHANGED <<calls, lockVars, alive, fsVars, holderVars>>

\* indexChunks: add every chunk to a batch and submit the batches to the
\* temporary index; on a failure close it, os.RemoveAll(tempIndexPath) and
\* return the error
indexChunks_batch(t) ==
  /\ pcOf(t) = "ic_batch" /\ Running(t)
  /\ \E fault \in BOOLEAN :
       IF fault
         THEN /\ tmpDir' = Absent
              /\ th' = [th EXCEPT ![t] = ReturnIndex(@, "batch")]
         ELSE /\ UNCHANGED tmpDir
              /\ th' = [th EXCEPT ![t].pc = "ic_close"]
  /\ UNCHANGED <<calls, lockVars, alive, indexDir, verMarker, cacheFresh, holderVars>>

\* variant: after newIndex.Close() the temporary index is renamed without
\* the removal of the old published directory
indexChunks_close_NoRemove(t) ==
  /\ pcOf(t) = "ic_close" /\ Running(t)
  /\ \E fault \in BOOLEAN :
       IF fault
         THEN /\ tmpDir' = Absent
              /\ th' = [th EXCEPT ![t] = ReturnIndex(@, "close")]
         ELSE /\ tmpDir' = IF tmpDir = Partial(th[t].build)
                             THEN Complete(th[t].build) ELSE tmpDir
              /\ th' = [th EXCEPT ![t].pc = "ic_rename"]
  /\ UNCHANGED <<calls, lockVars, alive, indexDir, verMarker, cacheFresh, holderVars>>

\* indexChunks: newIndex.Close(), after which the temporary index is complete
indexChunks_close(t) ==
  /\ pcOf(t) = "ic_close" /\ Running(t)
  /\ \E fault \in BOOLEAN :
       IF fault
         THEN /\ tmpDir' = Absent
              /\ th' = [th EXCEPT ![t] = ReturnIndex(@, "close")]
         ELSE /\ tmpDir' = IF tmpDir = Partial(th[t].build)
                             THEN Complete(th[t].build) ELSE tmpDir
              /\ th' = [th EXCEPT ![t].pc = "ic_rmold"]
  /\ UNCHANGED <<calls, lockVars, alive, indexDir, verMarker, cacheFresh, holderVars>>

\* indexChunks: os.RemoveAll(indexPath); when it fails (with none or some of
\* the entries removed) os.RemoveAll(tempIndexPath) and return the error
indexChunks_removeOld(t) ==
  /\ Running(t)
  /\ \/ /\ pcOf(t) = "ic_rmold"
        /\ indexDir' = RemoveAllBegin(indexDir)
        /\ th' = [th EXCEPT ![t].pc = "ic_rmold2"]
        /\ UNCHANGED tmpDir
     \/ /\ pcOf(t) = "ic_rmold2"
        /\ indexDir' = RemoveAllEnd(indexDir)
        /\ th' = [th EXCEPT ![t].pc = "ic_rename"]
        /\ UNCHANGED tmpDir
     \/ /\ pcOf(t) \in {"ic_rmold", "ic_rmold2"}
        /\ indexDir.st # "absent"
        /\ UNCHANGED indexDir
        /\ tmpDir' = Absent
        /\ th' = [th EXCEPT ![t] = ReturnIndex(@, "remove")]
  /\ UNCHANGED <<calls, lockVars, alive, verMarker, cacheFresh, holderVars>>

\* indexChunks: os.Rename(tempIndexPath, indexPath), which needs the source
\* to exist and the target to be free; when it fails
\* os.RemoveAll(tempIndexPath) and return the error
indexChunks_rename(t) ==
  /\ pcOf(t) = "ic_rename" /\ Running(t)
  /\ \/ /\ tmpDir.st # "absent" /\ indexDir.st = "absent"
        /\ indexDir' = tmpDir
        /\ tmpDir' = Absent
        /\ th' = [th EXCEPT ![t].pc = "ic_open"]
     \/ /\ tmpDir' = Absent
        /\ UNCHANGED indexDir
        /\ th' = [th EXCEPT ![t] = ReturnIndex(@, "rename")]
  /\ UNCHANGED <<calls, lockVars, alive, verMarker, cacheFresh, holderVars>>

\* indexChunks: bleve.Open(indexPath) of the published index
indexChunks_open(t) ==
  /\ pcOf(t) = "ic_open" /\ Running(t)
  /\ \/ /\ CanOpen(indexDir)
        /\ gens' = Append(gens, NewGen(procOf(t), indexDir))
        /\ th' = [th EXCEPT ![t] = [@ EXCEPT !.pc = "ic_swap",
                                             !.igen = Len(gens) + 1]]
     \/ /\ UNCHANGED gens
        /\ th' = [th EXCEPT ![t] = ReturnIndex(@, "open")]
  /\ UNCHANGED <<calls, lockVars, alive, fsVars, mgr, current, wg, refreshMu,
                 nextBuild>>

\* indexChunks: oldIndexPtr := indexMgr.current.Swap(&wrapped) and the start
\* of the goroutine that closes the old index
indexChunks_swap(t) ==
  /\ pcOf(t) = "ic_swap" /\ Running(t)
  /\ current' = [current EXCEPT ![procOf(t)] = th[t].igen]
  /\ LET new == [gens EXCEPT ![th[t].igen].swapped = TRUE]
     IN gens' = IF current[procOf(t)] = NoGen THEN new
                ELSE [new EXCEPT ![current[procOf(t)]].cleanup = "wait"]
  /\ th' = [th EXCEPT ![t].pc = "ic_ver"]
  /\ UNCHANGED <<calls, lockVars, alive, fsVars, mgr, wg, refreshMu, nextBuild>>

\* variant: indexChunks waits for the in-flight searches before it returns
indexChunks_version_Drain(t) ==
  /\ pcOf(t) = "ic_ver" /\ Running(t)
  /\ wg[procOf(t)] = 0
  /\ \E fault \in BOOLEAN :
       verMarker' = IF fault THEN verMarker ELSE IndexSchemaVersion
  /\ th' = [th EXCEPT ![t] = ReturnIndex(@, "nil")]
  /\ UNCHANGED <<calls, lockVars, alive, indexDir, tmpDir, cacheFresh, holderVars>>

\* indexChunks: writeIndexVersion(), a failure is only logged; return nil
indexChunks_version(t) ==
  /\ pcOf(t) = "ic_ver" /\ Running(t)
  /\ \E fault \in BOOLEAN :
       verMarker' = IF fault THEN verMarker ELSE IndexSchemaVersion
  /\ th' = [th EXCEPT ![t] = ReturnIndex(@, "nil")]
  /\ UNCHANGED <<calls, lockVars, alive, indexDir, tmpDir, cacheFresh, holderVars>>

\* variant: the goroutine closes the old index without indexMgr.wg.Wait()
indexChunks_cleanupWait_NoDrain(g) ==
  /\ g \in Gens /\ gens[g].cleanup = "wait" /\ alive[gens[g].proc]
  /\ gens' = [gens EXCEPT ![g].cleanup = "close"]
  /\ UNCHANGED <<calls, lockVars, alive, fsVars, mgr, current, wg, refreshMu,
                 nextBuild, th>>

\* the goroutine started by indexChunks: indexMgr.wg.Wait()
indexChunks_cleanupWait(g) ==
  /\ g \in Gens /\ gens[g].cleanup = "wait" /\ alive[gens[g].proc]
  /\ wg[gens[g].proc] = 0
  /\ gens' = [gens EXCEPT ![g].cleanup = "close"]
  /\ UNCHANGED <<calls, lockVars, alive, fsVars, mgr, current, wg, refreshMu,
                 nextBuild, th>>

\* the goroutine started by indexChunks: old.Close()
indexChunks_cleanupClose(g) ==
  /\ g \in Gens /\ gens[g].cleanup = "close" /\ alive[gens[g].proc]
  /\ gens' = [gens EXCEPT ![g] = [@ EXCEPT !.cleanup = "done",
                                           !.closes = @ + 1]]
  /\ UNCHANGED <<calls, lockVars, alive, fsVars, mgr, current, wg, refreshMu,
                 nextBuild, th>>

indexChunks(t) ==
  \/ indexChunks_start(t)
  \/ indexChunks_new(t)
  \/ indexChunks_batch(t)
  \/ indexChunks_close(t)
  \/ indexChunks_removeOld(t)
  \/ indexChunks_rename(t)
  \/ indexChunks_open(t)
  \/ indexChunks_swap(t)
  \/ indexChunks_version(t)

(***************************************************************************)
(* RefreshDocumentationIndex, refreshDocumentationIndex                    *)
(***************************************************************************)

\* needsRefresh(): no cache metadata, or older than cacheTTL
needsRefresh == ~cacheFresh

\* the operation of a goroutine has returned; its locals die
Finish(r) == NewThread(r.proc, r.ops)

\* refreshDocumentationIndex returns err to RefreshDocumentationIndex, which
\* returns the error or Updated = true
ReturnRefresh(r, err) ==
  [r EXCEPT !.pc = "rd_ret", !.res = IF err THEN "err" ELSE "updated"]

\* a tool handler runs only after RegisterDocSearchTools has returned
Registered(p) ==
  /\ mgr[p]
  /\ \A u \in Threads : th[u].proc = p => th[u].op # "init"

\* the calls each operation is bounded to
MaxCalls == [init |-> Cardinality(Procs), search |-> MaxSearches,
             refresh |-> MaxRefreshes, close |-> MaxCloses]

Called(op) == [calls EXCEPT ![op] = @ + 1]

\* a goroutine may start operation op
CanStart(t, op) ==
  /\ pcOf(t) = "idle" /\ Running(t)
  /\ op \in th[t].ops /\ calls[op] < MaxCalls[op]

Start(r, op, pc) == [r EXCEPT !.pc = pc, !.op = op]


\* variant: RefreshDocumentationIndex calls refreshDocumentationIndex
\* without looking at the age of the cache
RefreshDocumentationIndex_NoCheck(t) ==
  /\ CanStart(t, "refresh") /\ Registered(procOf(t))
  /\ calls' = Called("refresh")
  /\ \E force \in BOOLEAN :
       th' = [th EXCEPT ![t] =
                [Start(@, "refresh", "rf_check") EXCEPT !.force = force]]
  /\ UNCHANGED <<lockVars, alive, fsVars, holderVars>>

\* RefreshDocumentationIndex is called with input.Force = force: "Check if
\* refresh needed", return Updated = false when the cache is fresh
RefreshDocumentationIndex(t) ==
  /\ CanStart(t, "refresh") /\ Registered(procOf(t))
  /\ calls' = Called("refresh")
  /\ \E force \in BOOLEAN :
       th' = [th EXCEPT ![t] =
                IF ~force /\ ~needsRefresh
                  THEN [Start(@, "refresh", "rd_ret") EXCEPT !.res = "fresh"]
                ELSE [Start(@, "refresh", "rf_check") EXCEPT !.force = force]]
  /\ UNCHANGED <<lockVars, alive, fsVars, holderVars>>

\* RefreshDocumentationIndex returns its output (res) to the caller
RefreshDocumentationIndex_return(t) ==
  /\ pcOf(t) = "rd_ret" /\ Running(t)
  /\ th' = [th EXCEPT ![t] = Finish(@)]
  /\ UNCHANGED <<calls, lockVars, alive, fsVars, holderVars>>

\* refreshDocumentationIndex: the check before indexMgr.refreshMu.Lock()
refreshDocumentationIndex_check(t) ==
  /\ pcOf(t) = "rf_check" /\ Running(t)
  /\ th' = [th EXCEPT ![t] =
              IF ~@.force /\ ~needsRefresh THEN ReturnRefresh(@, FALSE)
              ELSE [@ EXCEPT !.pc = "rf_lock"]]
  /\ UNCHANGED <<calls, lockVars, alive, fsVars, holderVars>>

\* variant: refreshDocumentationIndex goes on without waiting for
\* indexMgr.refreshMu
refreshDocumentationIndex_lock_NoWait(t) ==
  /\ pcOf(t) = "rf_lock" /\ Running(t)
  /\ refreshMu' = [refreshMu EXCEPT ![procOf(t)] = t]
  /\ th' = [th EXCEPT ![t].pc = "rf_recheck"]
  /\ UNCHANGED <<calls, lockVars, alive, fsVars, mgr, current, wg, gens, nextBuild>>

\* refreshDocumentationIndex: indexMgr.refreshMu.Lock()
refreshDocumentationIndex_lock(t) ==
  /\ pcOf(t) = "rf_lock" /\ Running(t)
  /\ refreshMu[procOf(t)] = "none"
  /\ refreshMu' = [refreshMu EXCEPT ![procOf(t)] = t]
  /\ th' = [th EXCEPT ![t].pc = "rf_recheck"]
  /\ UNCHANGED <<calls, lockVars, alive, fsVars, mgr, current, wg, gens, nextBuild>>

\* variant: refreshDocumentationIndex does not check again after the lock
refreshDocumentationIndex_recheck_NoCheck(t) ==
  /\ pcOf(t) = "rf_recheck" /\ Running(t)
  /\ th' = [th EXCEPT ![t] = CallAcquire(@, "rf_locked")]
  /\ UNCHANGED <<calls, lockVars, alive, fsVars, holderVars>>

\* refreshDocumentationIndex: the check after the lock (double-checked
\* locking), then the call of acquireLock
refreshDocumentationIndex_recheck(t) ==
  /\ pcOf(t) = "rf_recheck" /\ Running(t)
  /\ IF ~th[t].force /\ ~needsRefresh
       THEN /\ th' = [th EXCEPT ![t] = ReturnRefresh(@, FALSE)]
            /\ refreshMu' = [refreshMu EXCEPT ![procOf(t)] = "none"]
       ELSE /\ th' = [th EXCEPT ![t] = CallAcquire(@, "rf_locked")]
            /\ UNCHANGED refreshMu
  /\ UNCHANGED <<calls, lockVars, alive, fsVars, mgr, current, wg, gens, nextBuild>>

\* refreshDocumentationIndex: after acquireLock has returned
refreshDocumentationIndex_locked(t) ==
  /\ pcOf(t) = "rf_locked" /\ Running(t)
  /\ IF th[t].lerr
       THEN /\ th' = [th EXCEPT ![t] = ReturnRefresh(@, TRUE)]
            /\ refreshMu' = [refreshMu EXCEPT ![procOf(t)] = "none"]
       ELSE /\ th' = [th EXCEPT ![t] = [@ EXCEPT !.pc = "rf_download",
                                                 !.locked = TRUE]]
            /\ UNCHANGED refreshMu
  /\ UNCHANGED <<calls, lockVars, alive, fsVars, mgr, current, wg, gens, nextBuild>>

\* refreshDocumentationIndex: downloadDocumentation(), which writes the cache
\* metadata last
refreshDocumentationIndex_download(t) ==
  /\ pcOf(t) = "rf_download" /\ Running(t)
  /\ \E fault \in BOOLEAN :
       IF fault
         THEN /\ th' = [th EXCEPT ![t] = ReturnRefresh(@, TRUE)]
              /\ refreshMu' = [refreshMu EXCEPT ![procOf(t)] = "none"]
              /\ UNCHANGED cacheFresh
         ELSE /\ th' = [th EXCEPT ![t].pc = "rf_parse"]
              /\ cacheFresh' = TRUE
              /\ UNCHANGED refreshMu
  /\ UNCHANGED <<calls, lockVars, alive, indexDir, tmpDir, verMarker, mgr, current,
                 wg, gens, nextBuild>>

\* refreshDocumentationIndex: indexing.ParseDocumentation(fullPath), then the
\* call of indexChunks
refreshDocumentationIndex_parse(t) ==
  /\ pcOf(t) = "rf_parse" /\ Running(t)
  /\ \E fault \in BOOLEAN :
       IF fault
         THEN /\ th' = [th EXCEPT ![t] = ReturnRefresh(@, TRUE)]
              /\ refreshMu' = [refreshMu EXCEPT ![procOf(t)] = "none"]
         ELSE /\ th' = [th EXCEPT ![t].pc = "ic_start"]
              /\ UNCHANGED refreshMu
  /\ UNCHANGED <<calls, lockVars, alive, fsVars, mgr, current, wg, gens, nextBuild>>

\* variant: refreshDocumentationIndex removes its lock record before it
\* returns
refreshDocumentationIndex_indexed_Release(t) ==
  /\ pcOf(t) = "rf_indexed" /\ Running(t)
  /\ th' = [th EXCEPT ![t] = ReturnRefresh(@, th[t].xerr # "nil")]
  /\ refreshMu' = [refreshMu EXCEPT ![procOf(t)] = "none"]
  /\ lockRec' = IF lockRec = procOf(t) THEN NoFile ELSE lockRec
  /\ UNCHANGED <<calls, holds, alive, fsVars, mgr, current, wg, gens, nextBuild>>

\* refreshDocumentationIndex: after indexChunks has returned
refreshDocumentationIndex_indexed(t) ==
  /\ pcOf(t) = "rf_indexed" /\ Running(t)
  /\ th' = [th EXCEPT ![t] = ReturnRefresh(@, th[t].xerr # "nil")]
  /\ refreshMu' = [refreshMu EXCEPT ![procOf(t)] = "none"]
  /\ UNCHANGED <<calls, lockVars, alive, fsVars, mgr, current, wg, gens, nextBuild>>

refreshDocumentationIndex(t) ==
  \/ refreshDocumentationIndex_check(t)
  \/ refreshDocumentationIndex_lock(t)
  \/ refreshDocumentationIndex_recheck(t)
  \/ refreshDocumentationIndex_locked(t)
  \/ refreshDocumentationIndex_download(t)
  \/ refreshDocumentationIndex_parse(t)
  \/ refreshDocumentationIndex_indexed(t)

(***************************************************************************)
(* SearchDocumentation                                                     *)
(***************************************************************************)

\* history: the newest build a swap of indexChunks has published in process
\* p, 0 when there was none
Published(p) ==
  LET B == {gens[g].build : g \in {h \in Gens : gens[h].proc = p
                                                /\ gens[h].swapped}}
  IN IF B = {} THEN 0 ELSE CHOOSE b \in B : \A c \in B : c <= b

\* SearchDocumentation is called: indexMgr.wg.Add(1)
SearchDocumentation_add(t) ==
  /\ CanStart(t, "search") /\ Registered(procOf(t))
  /\ calls' = Called("search")
  /\ wg' = [wg EXCEPT ![procOf(t)] = @ + 1]
  /\ th' = [th EXCEPT ![t] = [Start(@, "search", "sd_load")
                                 EXCEPT !.floor = Published(procOf(t))]]
  /\ UNCHANGED <<lockVars, alive, fsVars, mgr, current, refreshMu, gens,
                 nextBuild>>

\* variant: SearchDocumentation loads the reference under indexMgr.refreshMu
SearchDocumentation_load_Locked(t) ==
  /\ pcOf(t) = "sd_load" /\ Running(t)
  /\ refreshMu[procOf(t)] = "none"
  /\ th' = [th EXCEPT ![t] =
              IF current[procOf(t)] = NoGen THEN CallInit(@, "sd_reload")
              ELSE [@ EXCEPT !.pc = "sd_search",
                             !.gen = current[procOf(t)]]]
  /\ UNCHANGED <<calls, lockVars, alive, fsVars, holderVars>>

\* SearchDocumentation: indexPtr := indexMgr.current.Load(); when nil, the
\* call of InitializeDocSearch
SearchDocumentation_load(t) ==
  /\ pcOf(t) = "sd_load" /\ Running(t)
  /\ th' = [th EXCEPT ![t] =
              IF current[procOf(t)] = NoGen THEN CallInit(@, "sd_reload")
              ELSE [@ EXCEPT !.pc = "sd_search",
                             !.gen = current[procOf(t)]]]
  /\ UNCHANGED <<calls, lockVars, alive, fsVars, holderVars>>

\* variant: SearchDocumentation calls InitializeDocSearch again when it
\* failed
SearchDocumentation_reload_Retry(t) ==
  /\ pcOf(t) = "sd_reload" /\ Running(t)
  /\ th' = [th EXCEPT ![t] =
              IF @.ierr \/ current[procOf(t)] = NoGen
                THEN CallInit(@, "sd_reload")
              ELSE [@ EXCEPT !.pc = "sd_search",
                             !.gen = current[procOf(t)]]]
  /\ UNCHANGED <<calls, lockVars, alive, fsVars, holderVars>>

\* SearchDocumentation: after InitializeDocSearch has returned, "Reload
\* after initialization"
SearchDocumentation_reload(t) ==
  /\ pcOf(t) = "sd_reload" /\ Running(t)
  /\ th' = [th EXCEPT ![t] =
              IF @.ierr \/ current[procOf(t)] = NoGen
                THEN [@ EXCEPT !.pc = "sd_done", !.res = "err"]
              ELSE [@ EXCEPT !.pc = "sd_search",
                             !.gen = current[procOf(t)]]]
  /\ UNCHANGED <<calls, lockVars, alive, fsVars, holderVars>>

\* SearchDocumentation: index.Search(search) on the captured index, which
\* fails on a closed index
SearchDocumentation_search(t) ==
  /\ pcOf(t) = "sd_search" /\ Running(t)
  /\ th' = [th EXCEPT ![t] =
              [@ EXCEPT !.pc = "sd_done",
                        !.res = IF gens[th[t].gen].closes > 0 THEN "err"
                                ELSE "ok"]]
  /\ UNCHANGED <<calls, lockVars, alive, fsVars, holderVars>>

\* variant: SearchDocumentation returns an error without indexMgr.wg.Done()
SearchDocumentation_done_ErrKeeps(t) ==
  /\ pcOf(t) = "sd_done" /\ Running(t)
  /\ wg' = IF th[t].res = "err" THEN wg
           ELSE [wg EXCEPT ![procOf(t)] = @ - 1]
  /\ th' = [th EXCEPT ![t] = Finish(@)]
  /\ UNCHANGED <<calls, lockVars, alive, fsVars, mgr, current, refreshMu, gens,
                 nextBuild>>

\* SearchDocumentation: the deferred indexMgr.wg.Done() and the return
SearchDocumentation_done(t) ==
  /\ pcOf(t) = "sd_done" /\ Running(t)
  /\ wg' = [wg EXCEPT ![procOf(t)] = @ - 1]
  /\ th' = [th EXCEPT ![t] = Finish(@)]
  /\ UNCHANGED <<calls, lockVars, alive, fsVars, mgr, current, refreshMu, gens,
                 nextBuild>>

\* SearchDocumentation is called once more when the counted calls are used
\* up: the searches of a server keep arriving, and the calls beyond the
\* bound are not counted
SearchDocumentation_arrive(t) ==
  /\ pcOf(t) = "idle" /\ Running(t) /\ "search" \in th[t].ops
  /\ calls["search"] = MaxCalls["search"] /\ Registered(procOf(t))
  /\ wg' = [wg EXCEPT ![procOf(t)] = @ + 1]
  /\ th' = [th EXCEPT ![t] = [Start(@, "search", "sd_load")
                                 EXCEPT !.floor = Published(procOf(t))]]
  /\ UNCHANGED <<calls, lockVars, alive, fsVars, mgr, current, refreshMu,
                 gens, nextBuild>>

SearchDocumentation(t) ==
  \/ SearchDocumentation_add(t)
  \/ SearchDocumentation_load(t)
  \/ SearchDocumentation_reload(t)
  \/ SearchDocumentation_search(t)
  \/ SearchDocumentation_done(t)

(***************************************************************************)
(* RegisterDocSearchTools, CloseDocSearch                                  *)
(***************************************************************************)

\* RegisterDocSearchTools calls InitializeDocSearch, once per process
RegisterDocSearchTools_call(t) ==
  /\ CanStart(t, "init") /\ ~mgr[procOf(t)]
  /\ \A u \in Threads : th[u].proc = procOf(t) => th[u].op # "init"
  /\ calls' = Called("init")
  /\ th' = [th EXCEPT ![t] = CallInit(Start(@, "init", "idle"), "rg_ret")]
  /\ UNCHANGED <<lockVars, alive, fsVars, holderVars>>

\* RegisterDocSearchTools: a failed initialization (ierr) is only logged
RegisterDocSearchTools_return(t) ==
  /\ pcOf(t) = "rg_ret" /\ Running(t)
  /\ th' = [th EXCEPT ![t] = Finish(@)]
  /\ UNCHANGED <<calls, lockVars, alive, fsVars, holderVars>>

RegisterDocSearchTools(t) ==
  \/ RegisterDocSearchTools_call(t)
  \/ RegisterDocSearchTools_return(t)

\* variant: CloseDocSearch reads the reference with Load() and leaves it set
CloseDocSearch_swap_Load(t) ==
  /\ CanStart(t, "close")
  /\ calls' = Called("close")
  /\ current' = current
  /\ th' = [th EXCEPT ![t] =
              [Start(@, "close", IF current[procOf(t)] = NoGen THEN "rl_read"
                                 ELSE "cl_wait")
                 EXCEPT !.gen = current[procOf(t)]]]
  /\ UNCHANGED <<lockVars, alive, fsVars, mgr, wg, refreshMu, gens, nextBuild>>

\* CloseDocSearch is called: indexPtr := indexMgr.current.Swap(nil) when the
\* holder exists
CloseDocSearch_swap(t) ==
  /\ CanStart(t, "close")
  /\ calls' = Called("close")
  /\ current' = IF mgr[procOf(t)] THEN [current EXCEPT ![procOf(t)] = NoGen]
                ELSE current
  /\ th' = [th EXCEPT ![t] =
              [Start(@, "close", IF current[procOf(t)] = NoGen THEN "rl_read"
                                 ELSE "cl_wait")
                 EXCEPT !.gen = current[procOf(t)]]]
  /\ UNCHANGED <<lockVars, alive, fsVars, mgr, wg, refreshMu, gens, nextBuild>>

\* variant: CloseDocSearch goes on without indexMgr.wg.Wait()
CloseDocSearch_wait_NoDrain(t) ==
  /\ pcOf(t) = "cl_wait" /\ Running(t)
  /\ th' = [th EXCEPT ![t].pc = "cl_close"]
  /\ UNCHANGED <<calls, lockVars, alive, fsVars, holderVars>>

\* CloseDocSearch: indexMgr.wg.Wait()
CloseDocSearch_wait(t) ==
  /\ pcOf(t) = "cl_wait" /\ Running(t)
  /\ wg[procOf(t)] = 0
  /\ th' = [th EXCEPT ![t].pc = "cl_close"]
  /\ UNCHANGED <<calls, lockVars, alive, fsVars, holderVars>>

\* CloseDocSearch: closeErr = index.Close(), then the call of releaseLock
CloseDocSearch_close(t) ==
  /\ pcOf(t) = "cl_close" /\ Running(t)
  /\ gens' = [gens EXCEPT ![th[t].gen].closes = @ + 1]
  /\ \E err \in BOOLEAN :
       th' = [th EXCEPT ![t] = [@ EXCEPT !.pc = "rl_read", !.cerr = err]]
  /\ UNCHANGED <<calls, lockVars, alive, fsVars, mgr, current, wg, refreshMu,
                 nextBuild>>

\* CloseDocSearch returns its result (res) to the caller
CloseDocSearch_return(t) ==
  /\ pcOf(t) = "cl_ret" /\ Running(t)
  /\ th' = [th EXCEPT ![t] = Finish(@)]
  /\ UNCHANGED <<calls, lockVars, alive, fsVars, holderVars>>

CloseDocSearch(t) ==
  \/ CloseDocSearch_swap(t)
  \/ CloseDocSearch_wait(t)
  \/ CloseDocSearch_close(t)
  \/ CloseDocSearch_return(t)

(***************************************************************************)
(* Text helpers of the indexing package (internal/indexing)                *)
(*                                                                         *)
(* A Go string is a sequence of one-character strings; positions start at  *)
(* 1 here and at 0 in the source.  Only ASCII text is considered, so that  *)
(* len() counts characters.                                                *)
(***************************************************************************)

\* chunking strategy constants
TargetChunkTokens == 500

MaxChunkTokens == 800

OverlapTokens == 100

CharsPerToken == 4

NL == "\n"

\* the least element of a non-empty set of numbers
Least(S) == CHOOSE x \in S : \A y \in S : x <= y

\* the greatest element of a non-empty set of numbers
Greatest(S) == CHOOSE x \in S : \A y \in S : y <= x

\* s[from..] (s[from-1:] in the source)
Tail_(s, from) == SubSeq(s, from, Len(s))

\* strings.HasPrefix(s, p)
HasPrefix(s, p) ==
  /\ Len(s) >= Len(p)
  /\ \A k \in 1..Len(p) : s[k] = p[k]

\* the positions where sep occurs in s
Occurrences(s, sep) ==
  {i \in 1..(Len(s) - Len(sep) + 1) : \A k \in 1..Len(sep) : s[i + k - 1] = sep[k]}

\* strings.Index(s[from-1:], sep): the first occurrence at or after from, 0
\* when there is none
IndexFrom(s, sep, from) ==
  LET N == {i \in Occurrences(s, sep) : i >= from}
  IN IF N = {} THEN 0 ELSE Least(N)

\* strings.Contains(s, sep)
Contains(s, sep) == Occurrences(s, sep) # {}

\* strings.Split(s, sep): the pieces between the occurrences of sep, taken
\* from the left without overlap
RECURSIVE SplitFrom(_, _, _, _)
SplitFrom(s, sep, occ, from) ==
  LET N == {i \in occ : i >= from}
  IN IF N = {} THEN <<Tail_(s, from)>>
     ELSE <<SubSeq(s, from, Least(N) - 1)>>
            \o SplitFrom(s, sep, occ, Least(N) + Len(sep))

Split(s, sep) == SplitFrom(s, sep, Occurrences(s, sep), 1)

\* white space as strings.TrimSpace sees it
IsSpace(c) == c \in {" ", NL, "\t"}

\* the first and the last position in lo..hi of s that holds no white space,
\* 0 when there is none
RECURSIVE FirstNonSpace(_, _, _)
FirstNonSpace(s, lo, hi) ==
  IF lo > hi THEN 0
  ELSE IF lo = hi THEN (IF IsSpace(s[lo]) THEN 0 ELSE lo)
  ELSE LET m == (lo + hi) \div 2
           l == FirstNonSpace(s, lo, m)
       IN IF l # 0 THEN l ELSE FirstNonSpace(s, m + 1, hi)

RECURSIVE LastNonSpace(_, _, _)
LastNonSpace(s, lo, hi) ==
  IF lo > hi THEN 0
  ELSE IF lo = hi THEN (IF IsSpace(s[lo]) THEN 0 ELSE lo)
  ELSE LET m == (lo + hi) \div 2
           r == LastNonSpace(s, m + 1, hi)
       IN IF r # 0 THEN r ELSE LastNonSpace(s, lo, m)

\* strings.TrimSpace(s)
TrimSpace(s) ==
  LET f == FirstNonSpace(s, 1, Len(s))
  IN IF f = 0 THEN <<>> ELSE SubSeq(s, f, LastNonSpace(s, f, Len(s)))

\* strings.TrimLeft(s, "#")
TrimLeftHash(s) ==
  LET N == {i \in 1..Len(s) : s[i] # "#"}
  IN IF N = {} THEN <<>> ELSE Tail_(s, Least(N))

\* strings.Join(parts, sep) for the texts of a sequence
RECURSIVE Join(_, _)
Join(parts, sep) ==
  IF parts = <<>> THEN <<>>
  ELSE IF Len(parts) = 1 THEN parts[1]
  ELSE parts[1] \o sep \o Join(Tail(parts), sep)

\* strconv.Itoa(n) for n >= 0, as fmt.Sprintf("%d", n) prints it
RECURSIVE Itoa(_)
Itoa(n) ==
  LET Digit == <<"0", "1", "2", "3", "4", "5", "6", "7", "8", "9">>
  IN IF n < 10 THEN <<Digit[n + 1]>>
     ELSE Itoa(n \div 10) \o <<Digit[(n % 10) + 1]>>

\* a match of markdownLinkRegex, `\[([^\]]+)\]\([^\)]+\)`, that starts at
\* position i: "[", one or more characters other than "]", "](", one or more
\* characters other than ")", ")".  Neither class can take its closing
\* character, so the groups end at the first "]" and the first ")".
\* The result holds the positions of "]" and ")" (0, 0 when there is no
\* match at i)
LinkAt(s, i) ==
  LET j == IndexFrom(s, <<"]">>, i + 1)
      k == IF j = 0 THEN 0 ELSE IndexFrom(s, <<")">>, j + 2)
  IN IF /\ i <= Len(s) /\ s[i] = "["
        /\ j > i + 1
        /\ j + 1 <= Len(s) /\ s[j + 1] = "("
        /\ k > j + 2
       THEN <<j, k>> ELSE <<0, 0>>

\* the start of the leftmost match of the regular expression at or after
\* from, 0 when there is none
FirstLink(s, from) ==
  LET N == {i \in from..Len(s) : LinkAt(s, i)[1] # 0}
  IN IF N = {} THEN 0 ELSE Least(N)

\* StripMarkdownLinks: markdownLinkRegex.ReplaceAllString(text, "$1"), every
\* match from the left, without overlap, replaced by its first group
RECURSIVE StripLinksFrom(_, _)
StripLinksFrom(s, from) ==
  LET i == FirstLink(s, from)
      m == LinkAt(s, i)
  IN IF i = 0 THEN Tail_(s, from)
     ELSE SubSeq(s, from, i - 1) \o SubSeq(s, i + 1, m[1] - 1)
            \o StripLinksFrom(s, m[2] + 1)

StripMarkdownLinks(text) == StripLinksFrom(text, 1)

\* ExtractURLFromMarkdown: the second group of the leftmost match, "" when
\* there is none
ExtractURLFromMarkdown(text) ==
  LET i == FirstLink(text, 1)
      m == LinkAt(text, i)
  IN IF i = 0 THEN <<>> ELSE SubSeq(text, m[1] + 2, m[2] - 1)

\* EstimateTokens: len(text) / CharsPerToken
EstimateTokens(text) == Len(text) \div CharsPerToken

\* strings.ToLower on the letters of the texts considered
ToLower(c) == CASE c = "A" -> "a" [] c = "B" -> "b" [] OTHER -> c

\* CreateAnchor: lower case, trimmed, spaces to hyphens, only a-z, 0-9 and
\* "-" kept
CreateAnchor(text) ==
  LET t == TrimSpace([i \in 1..Len(text) |-> ToLower(text[i])])
      h == [i \in 1..Len(t) |-> IF t[i] = " " THEN "-" ELSE t[i]]
      Keep == {"a", "b", "c", "x", "y", "z", "0", "1", "2", "3", "4", "5",
               "6", "7", "8", "9", "-"}
  IN SelectSeq(h, LAMBDA c : c \in Keep)

\* ExtractFirstHeader: the first line of content that, trimmed, starts with
\* "###": its text without the leading "#", trimmed and stripped of links;
\* "" when there is none
ExtractFirstHeader(content) ==
  LET Starts == {1} \cup {i + 1 : i \in Occurrences(content, <<NL>>)}
      LineEnd(b) == LET e == IndexFrom(content, <<NL>>, b)
                    IN IF e = 0 THEN Len(content) ELSE e - 1
      IsHeader(b) == LET f == FirstNonSpace(content, b, LineEnd(b))
                     IN /\ f # 0
                        /\ HasPrefix(SubSeq(content, f, LineEnd(b)),
                                     <<"#", "#", "#">>)
      H == {b \in Starts : b <= Len(content) /\ IsHeader(b)}
  IN IF H = {} THEN <<>>
     ELSE LET b == Least(H)
          IN StripMarkdownLinks(TrimSpace(TrimLeftHash(
               TrimSpace(SubSeq(content, b, LineEnd(b))))))

(***************************************************************************)
(* Chunking: EnrichMetadata, ForceSplitText, SubdivideChunk,               *)
(* ParseDocumentation                                                      *)
(***************************************************************************)

\* a DocChunk; Breadcrumb and Keywords are left out, nothing below reads
\* them
DocChunk(id, page, category, subcategory, content) ==
  [ID |-> id, Page |-> page, Category |-> category,
   Subcategory |-> subcategory, Content |-> content, URL |-> <<>>,
   TokenCount |-> 0]

\* EnrichMetadata: the URL (the base URL, with the anchor of the subcategory
\* below the top level) and the token count
EnrichMetadata(chunk, breadcrumbParts, baseURL) ==
  [chunk EXCEPT
     !.URL = IF baseURL = <<>> THEN @
             ELSE IF Len(breadcrumbParts) > 1
               THEN baseURL \o <<"#">> \o CreateAnchor(chunk.Subcategory)
             ELSE baseURL,
     !.TokenCount = EstimateTokens(chunk.Content)]

\* improveSubchunkTitle: the first "###" header of the content becomes the
\* subcategory; without one, parts after the first are named
\* "<category> (part N)"
improveSubchunkTitle(subchunk, originalCategory, partIndex) ==
  LET firstHeader == ExtractFirstHeader(subchunk.Content)
  IN IF firstHeader # <<>>
       THEN [subchunk EXCEPT !.Subcategory = firstHeader]
     ELSE IF partIndex > 0
       THEN [subchunk EXCEPT !.Subcategory =
               originalCategory \o <<" ", "(", "p", "a", "r", "t", " ">>
                 \o Itoa(partIndex + 1) \o <<")">>]
     ELSE subchunk

\* the sub-chunk SubdivideChunk builds for content: ID "<id>_sub<index>",
\* the titles of the section, improved title, metadata
Subchunk(chunk, index, content, breadcrumbParts, baseURL) ==
  EnrichMetadata(
    improveSubchunkTitle(
      DocChunk(chunk.ID \o <<"_", "s", "u", "b">> \o Itoa(index), chunk.Page,
               chunk.Category, chunk.Subcategory, content),
      chunk.Category, index),
    breadcrumbParts, baseURL)

\* ForceSplitText: parts of at most maxChars characters, cut at the last
\* space or newline among the 100 positions up to the limit when there is
\* one; the next part starts overlapChars before the cut when more than
\* overlapChars characters are left after it
RECURSIVE ForceSplitText(_, _, _)
ForceSplitText(text, maxChars, overlapChars) ==
  IF Len(text) = 0 THEN <<>>
  ELSE
    LET limit == IF Len(text) < maxChars THEN Len(text) ELSE maxChars
        breaks == IF limit < Len(text)
                    THEN {i \in (limit - 99)..limit :
                            i > 0 /\ text[i + 1] \in {" ", NL}}
                  ELSE {}
        chunkSize == IF breaks = {} THEN limit ELSE Greatest(breaks)
        rest == IF chunkSize + overlapChars < Len(text)
                  THEN Tail_(text, chunkSize - overlapChars + 1)
                ELSE Tail_(text, chunkSize + 1)
    IN <<SubSeq(text, 1, chunkSize)>>
         \o ForceSplitText(rest, maxChars, overlapChars)

\* the trailing overlapChars characters of text
Overlap(text, overlapChars) == Tail_(text, Len(text) - overlapChars + 1)

ParaBreak == <<NL, NL>>

\* the state of the loop of SubdivideChunk over the paragraphs
SubdivideStart ==
  [subchunks |-> <<>>, currentContent |-> <<>>, previousContent |-> <<>>,
   subchunkIndex |-> 0]

\* SubdivideChunk: the sub-chunks for the parts of a paragraph that was
\* force-split; each part becomes the previous content
RECURSIVE SubdivideParts(_, _, _, _, _)
SubdivideParts(st, parts, chunk, breadcrumbParts, baseURL) ==
  IF parts = <<>> THEN st
  ELSE SubdivideParts(
         [st EXCEPT
            !.subchunks = Append(@, Subchunk(chunk, st.subchunkIndex,
                                             parts[1], breadcrumbParts,
                                             baseURL)),
            !.previousContent = parts[1],
            !.subchunkIndex = @ + 1],
         Tail(parts), chunk, breadcrumbParts, baseURL)

\* SubdivideChunk: close the buffer as a sub-chunk with the given content
SubdivideClose(st, content, chunk, breadcrumbParts, baseURL) ==
  [st EXCEPT
     !.subchunks = Append(@, Subchunk(chunk, st.subchunkIndex, content,
                                      breadcrumbParts, baseURL)),
     !.previousContent = st.currentContent,
     !.currentContent = <<>>,
     !.subchunkIndex = @ + 1]

\* variant: SubdivideChunk treats a paragraph above MaxChunkTokens as any
\* other paragraph, without ForceSplitText
SubdividePara_NoForce(st, para0, chunk, breadcrumbParts, baseURL) ==
  LET para == TrimSpace(para0)
      overlapChars == OverlapTokens * CharsPerToken
      prev == st.previousContent
      cur == st.currentContent
      testContent == IF cur # <<>> THEN cur \o ParaBreak \o para ELSE para
      content == IF Len(cur) > 0
                   THEN IF prev # <<>> /\ Len(prev) > overlapChars
                          THEN Overlap(prev, overlapChars) \o ParaBreak \o cur
                        ELSE IF prev # <<>> THEN prev \o ParaBreak \o cur
                        ELSE cur
                 ELSE prev
      saved == IF EstimateTokens(testContent) > TargetChunkTokens
                 THEN SubdivideClose(st, content, chunk, breadcrumbParts,
                                     baseURL)
               ELSE st
  IN IF para = <<>> THEN st
     ELSE [saved EXCEPT
             !.currentContent = IF Len(@) > 0 THEN @ \o ParaBreak \o para
                                ELSE para]

\* SubdivideChunk: one iteration of the loop, for paragraph para
SubdividePara(st, para0, chunk, breadcrumbParts, baseURL) ==
  LET para == TrimSpace(para0)
      maxChars == MaxChunkTokens * CharsPerToken
      overlapChars == OverlapTokens * CharsPerToken
      prev == st.previousContent
      cur == st.currentContent
  IN IF para = <<>> THEN st
     ELSE IF EstimateTokens(para) > MaxChunkTokens
       THEN \* save the buffer first, then force-split the paragraph
         LET content == IF prev # <<>> /\ Len(prev) > overlapChars
                          THEN Overlap(prev, overlapChars) \o ParaBreak \o cur
                        ELSE cur
             saved == IF Len(cur) > 0
                        THEN SubdivideClose(st, content, chunk,
                                            breadcrumbParts, baseURL)
                      ELSE st
         IN SubdivideParts(saved,
                           ForceSplitText(para, maxChars, overlapChars),
                           chunk, breadcrumbParts, baseURL)
     ELSE
       LET testContent == IF cur # <<>> THEN cur \o ParaBreak \o para
                          ELSE para
           content == IF Len(cur) > 0
                        THEN IF prev # <<>> /\ Len(prev) > overlapChars
                               THEN Overlap(prev, overlapChars)
                                      \o ParaBreak \o cur
                             ELSE IF prev # <<>>
                               THEN prev \o ParaBreak \o cur
                             ELSE cur
                      ELSE prev
           saved == IF EstimateTokens(testContent) > TargetChunkTokens
                      THEN SubdivideClose(st, content, chunk,
                                          breadcrumbParts, baseURL)
                    ELSE st
       IN [saved EXCEPT
             !.currentContent = IF Len(@) > 0 THEN @ \o ParaBreak \o para
                                ELSE para]

RECURSIVE SubdivideLoop(_, _, _, _, _)
SubdivideLoop(st, paragraphs, chunk, breadcrumbParts, baseURL) ==
  IF paragraphs = <<>> THEN st
  ELSE SubdivideLoop(
         SubdividePara(st, paragraphs[1], chunk, breadcrumbParts, baseURL),
         Tail(paragraphs), chunk, breadcrumbParts, baseURL)

\* SubdivideChunk: the paragraphs of the content, split at blank lines or,
\* when there is no blank line, after every ". "
Paragraphs(content) ==
  LET byBreak == Split(content, ParaBreak)
      bySentence == Split(content, <<".", " ">>)
  IN IF Len(byBreak) > 1 THEN byBreak
     ELSE [i \in 1..Len(bySentence) |->
             IF i < Len(bySentence) THEN bySentence[i] \o <<".">>
             ELSE bySentence[i]]

\* SubdivideChunk: the parts of the last resort, numbered from 0
RECURSIVE SubdivideLastResort(_, _, _, _, _)
SubdivideLastResort(parts, i, chunk, breadcrumbParts, baseURL) ==
  IF parts = <<>> THEN <<>>
  ELSE <<Subchunk(chunk, i, parts[1], breadcrumbParts, baseURL)>>
         \o SubdivideLastResort(Tail(parts), i + 1, chunk, breadcrumbParts,
                                baseURL)

\* SubdivideChunk: the sub-chunks after the final flush, which closes the
\* content that remains in the buffer
SubdivideFlush(st, chunk, breadcrumbParts, baseURL) ==
  IF Len(st.currentContent) > 0
    THEN SubdivideClose(
           st,
           IF st.previousContent # <<>>
              /\ Len(st.previousContent) > OverlapTokens * CharsPerToken
             THEN Overlap(st.previousContent, OverlapTokens * CharsPerToken)
                    \o ParaBreak \o st.currentContent
           ELSE st.previousContent \o ParaBreak \o st.currentContent,
           chunk, breadcrumbParts, baseURL).subchunks
  ELSE st.subchunks

\* SubdivideChunk: the sub-chunks returned, those of the last resort when
\* the loop made none
SubdivideReturn(subchunks, chunk, breadcrumbParts, baseURL) ==
  IF Len(subchunks) = 0
    THEN IF Len(chunk.Content) > MaxChunkTokens * CharsPerToken
           THEN SubdivideLastResort(
                  ForceSplitText(chunk.Content, MaxChunkTokens * CharsPerToken,
                                 OverlapTokens * CharsPerToken),
                  0, chunk, breadcrumbParts, baseURL)
         ELSE <<EnrichMetadata(chunk, breadcrumbParts, baseURL)>>
  ELSE subchunks

\* SubdivideChunk(chunk, breadcrumbParts, baseURL)
SubdivideChunk(chunk, breadcrumbParts, baseURL) ==
  IF EstimateTokens(chunk.Content) <= MaxChunkTokens
    THEN <<EnrichMetadata(chunk, breadcrumbParts, baseURL)>>
  ELSE SubdivideReturn(
         SubdivideFlush(
           SubdivideLoop(SubdivideStart, Paragraphs(chunk.Content), chunk,
                         breadcrumbParts, baseURL),
           chunk, breadcrumbParts, baseURL),
         chunk, breadcrumbParts, baseURL)

\* fmt.Sprintf("chunk_%d", n)
ChunkID(n) == <<"c", "h", "u", "n", "k", "_">> \o Itoa(n)

\* the state of the loop of ParseDocumentation over the lines: the groups
\* of chunks appended to finalChunks, the current chunk (none at first), the
\* breadcrumb, the base URL, the content builder and the chunk counter
ParseStart ==
  [finalChunks |-> <<>>, currentChunk |-> <<>>, breadcrumbParts |-> <<>>,
   baseURL |-> <<>>, contentBuilder |-> <<>>, chunkID |-> 0]

\* saveCurrentChunk: chunks whose ID holds no "_sub" are numbered again from
\* the counter, which moves on by one for each
RECURSIVE Reindex(_, _)
Reindex(subchunks, chunkID) ==
  IF subchunks = <<>> THEN [chunks |-> <<>>, chunkID |-> chunkID]
  ELSE IF Contains(subchunks[1].ID, <<"_", "s", "u", "b">>)
    THEN LET r == Reindex(Tail(subchunks), chunkID)
         IN [r EXCEPT !.chunks = <<subchunks[1]>> \o @]
  ELSE LET r == Reindex(Tail(subchunks), chunkID + 1)
       IN [r EXCEPT !.chunks =
             <<[subchunks[1] EXCEPT !.ID = ChunkID(chunkID)]>> \o @]

\* saveCurrentChunk: the sub-chunks are renumbered and appended to
\* finalChunks, and the counter moves on by their number less one when
\* there is more than one
AppendChunks(st, subchunks) ==
  [st EXCEPT
     !.finalChunks = Append(@, Reindex(subchunks, st.chunkID).chunks),
     !.chunkID = IF Len(subchunks) > 1
                   THEN Reindex(subchunks, st.chunkID).chunkID
                          + Len(subchunks) - 1
                 ELSE Reindex(subchunks, st.chunkID).chunkID]

\* saveCurrentChunk: when there is a current chunk with content, subdivide
\* it and append the sub-chunks
saveCurrentChunk(st) ==
  IF st.currentChunk # <<>> /\ Len(st.contentBuilder) > 0
    THEN AppendChunks(
           st,
           SubdivideChunk([st.currentChunk[1] EXCEPT
                             !.Content = st.contentBuilder],
                          st.breadcrumbParts, st.baseURL))
  ELSE st

\* ParseDocumentation: a heading of level 2 starts a category below the
\* current page
StartCategory(saved, title) ==
  [saved EXCEPT
     !.breadcrumbParts = (IF Len(@) > 1 THEN SubSeq(@, 1, 1) ELSE @)
                           \o <<title>>,
     !.currentChunk =
        <<DocChunk(ChunkID(saved.chunkID),
                   (saved.breadcrumbParts \o <<title>>)[1], title, title,
                   <<>>)>>,
     !.contentBuilder = <<>>]

\* ParseDocumentation: a heading of level 1 starts a page
StartPage(saved, rawCategory, category) ==
  [saved EXCEPT
     !.baseURL = ExtractURLFromMarkdown(rawCategory),
     !.breadcrumbParts = <<category>>,
     !.currentChunk =
        <<DocChunk(ChunkID(saved.chunkID), category, category, category,
                   <<>>)>>,
     !.contentBuilder = <<>>]

\* the title of a heading line: without the leading "#", trimmed
Title(line) == TrimSpace(TrimLeftHash(line))

\* variant: a heading of level 3 or more starts a category as one of
\* level 2 does
ParseTrimmed_H3(st, saved, line) ==
  IF HasPrefix(line, <<"#", "#">>)
    THEN StartCategory(saved, StripMarkdownLinks(Title(line)))
  ELSE IF HasPrefix(line, <<"#">>) /\ ~HasPrefix(line, <<"#", "#">>)
    THEN StartPage(saved, Title(line), StripMarkdownLinks(Title(line)))
  ELSE IF line # <<>> /\ st.currentChunk # <<>>
    THEN [st EXCEPT !.contentBuilder =
            IF Len(@) > 0 THEN @ \o <<NL>> \o line ELSE line]
  ELSE st

\* ParseDocumentation: the effect of a line that has been trimmed on the
\* state st of the loop; saved is the state that saveCurrentChunk leaves,
\* from which a heading goes on
ParseTrimmed(st, saved, line) ==
  IF HasPrefix(line, <<"#", "#">>) /\ ~HasPrefix(line, <<"#", "#", "#">>)
    THEN StartCategory(saved, StripMarkdownLinks(Title(line)))
  ELSE IF HasPrefix(line, <<"#">>) /\ ~HasPrefix(line, <<"#", "#">>)
    THEN StartPage(saved, Title(line), StripMarkdownLinks(Title(line)))
  ELSE IF line # <<>> /\ st.currentChunk # <<>>
    THEN [st EXCEPT !.contentBuilder =
            IF Len(@) > 0 THEN @ \o <<NL>> \o line ELSE line]
  ELSE st

\* ParseDocumentation: one iteration of the loop, for one line
ParseLine(st, line0) ==
  ParseTrimmed(st, saveCurrentChunk(st), TrimSpace(line0))

RECURSIVE ParseLoop(_, _)
ParseLoop(st, lines) ==
  IF lines = <<>> THEN st
  ELSE ParseLoop(ParseLine(st, lines[1]), Tail(lines))

\* the groups of chunks ParseDocumentation appends to finalChunks, one group
\* for every call of saveCurrentChunk that had a chunk to save
ParseSections(text) ==
  saveCurrentChunk(ParseLoop(ParseStart, Split(text, <<NL>>))).finalChunks

\* the concatenation of a sequence of sequences
RECURSIVE Flatten(_)
Flatten(groups) ==
  IF groups = <<>> THEN <<>> ELSE groups[1] \o Flatten(Tail(groups))

\* ParseDocumentation(docsFile), for the text of the file
ParseDocumentation(text) == Flatten(ParseSections(text))

(***************************************************************************)
(* Environment                                                             *)
(***************************************************************************)

\* process p stops at an arbitrary point (crash, kill, exit)
Crash(p) ==
  /\ alive[p] /\ \E t \in Threads : th[t].proc = p
  /\ alive' = [alive EXCEPT ![p] = FALSE]
  /\ UNCHANGED <<calls, lockVars, fsVars, holderVars, th>>

(***************************************************************************)
(* Specifications                                                          *)
(***************************************************************************)

\* states of the data directory a process can find when it starts
InitData ==
  /\ \/ indexDir = Absent /\ verMarker = 0
     \/ indexDir = Complete(0) /\ verMarker \in 1..IndexSchemaVersion
  /\ tmpDir = Absent
  /\ cacheFresh \in BOOLEAN
  /\ nextBuild = 1

InitHolders ==
  /\ alive = [p \in Procs |-> TRUE]
  /\ holds = [p \in Procs |-> FALSE]
  /\ mgr = [p \in Procs |-> FALSE]
  /\ current = [p \in Procs |-> NoGen]
  /\ wg = [p \in Procs |-> 0]
  /\ refreshMu = [p \in Procs |-> "none"]
  /\ gens = <<>>
  /\ calls = [op \in {"init", "search", "refresh", "close"} |-> 0]

\* the goroutines of a process: startup, searches, refreshes, shutdown; the
\* main goroutine of a whole process starts up and shuts down
Role(t) == CASE t = "main" -> {"init"}
              [] t \in {"s1", "s2"} -> {"search"}
              [] t \in {"r1", "r2"} -> {"refresh"}
              [] t \in {"p1", "p2"} -> {"init", "close"}
              [] OTHER -> {"close"}

\* one server process: startup, searches and a refresh run concurrently; the
\* lock record is free or stale
Init ==
  /\ InitData /\ InitHolders
  /\ lockRec \in {NoFile, DeadPid}
  /\ th = [t \in {"main", "s1", "r1"} |-> NewThread(1, Role(t))]

Next ==
  \/ \E t \in Threads :
       \/ acquireLock(t)
       \/ InitializeDocSearch(t)
       \/ RegisterDocSearchTools(t)
       \/ SearchDocumentation(t)
       \/ RefreshDocumentationIndex(t)
       \/ RefreshDocumentationIndex_return(t)
       \/ refreshDocumentationIndex(t)
       \/ indexChunks(t)
  \/ \E p \in Procs : Crash(p)
  \/ \E g \in Gens : indexChunks_cleanupWait(g) \/ indexChunks_cleanupClose(g)

Spec == Init /\ [][Next]_vars

\* one server process: startup, a search and the shutdown run concurrently;
\* the lock record is free, stale or unreadable
InitClose ==
  /\ InitData /\ InitHolders
  /\ lockRec \in {NoFile, DeadPid, Garbage}
  /\ th = [t \in {"main", "s1", "cl"} |-> NewThread(1, Role(t))]

NextClose ==
  \/ \E t \in Threads :
       \/ acquireLock(t)
       \/ InitializeDocSearch(t)
       \/ RegisterDocSearchTools(t)
       \/ SearchDocumentation(t)
       \/ CloseDocSearch(t)
       \/ releaseLock(t)
  \/ \E p \in Procs : Crash(p)

SpecClose == InitClose /\ [][NextClose]_vars

\* two server processes on one data directory, each starting up and shutting
\* down; the lock record is free, stale or unreadable
InitLock ==
  /\ InitData /\ InitHolders /\ ~cacheFresh
  /\ lockRec \in {NoFile, DeadPid, Garbage}
  /\ th = [t \in {"p1", "p2"} |->
             NewThread(IF t = "p1" THEN 1 ELSE 2, Role(t))]

NextLock ==
  \/ \E t \in Threads :
       \/ acquireLock(t)
       \/ InitializeDocSearch(t)
       \/ RegisterDocSearchTools(t)
       \/ CloseDocSearch(t)
       \/ releaseLock(t)
  \/ \E p \in Procs : Crash(p)

SpecLock == InitLock /\ [][NextLock]_vars

\* one server process: after the startup two goroutines call the refresh
\* tool concurrently; the lock record is free or stale
InitRefresh ==
  /\ InitData /\ InitHolders
  /\ lockRec \in {NoFile, DeadPid}
  /\ th = [t \in {"main", "r1", "r2"} |-> NewThread(1, Role(t))]

NextRefresh ==
  \/ \E t \in Threads :
       \/ acquireLock(t)
       \/ InitializeDocSearch(t)
       \/ RegisterDocSearchTools(t)
       \/ RefreshDocumentationIndex(t)
       \/ RefreshDocumentationIndex_return(t)
       \/ refreshDocumentationIndex(t)
       \/ indexChunks(t)
  \/ \E g \in Gens : indexChunks_cleanupWait(g) \/ indexChunks_cleanupClose(g)

SpecRefresh == InitRefresh /\ [][NextRefresh]_vars

\* one server process: startup, a refresh with its background cleanup and
\* the shutdown run concurrently; the lock record is free or stale
InitShutdown ==
  /\ InitData /\ InitHolders
  /\ lockRec \in {NoFile, DeadPid}
  /\ th = [t \in {"main", "r1", "cl"} |-> NewThread(1, Role(t))]

NextShutdown ==
  \/ \E t \in Threads :
       \/ acquireLock(t)
       \/ InitializeDocSearch(t)
       \/ RegisterDocSearchTools(t)
       \/ RefreshDocumentationIndex(t)
       \/ RefreshDocumentationIndex_return(t)
       \/ refreshDocumentationIndex(t)
       \/ indexChunks(t)
       \/ CloseDocSearch(t)
       \/ releaseLock(t)
  \/ \E g \in Gens : indexChunks_cleanupWait(g) \/ indexChunks_cleanupClose(g)

SpecShutdown == InitShutdown /\ [][NextShutdown]_vars

\* one server process that does not stop, after its startup has opened and
\* published the embedded index under the lock: searches keep arriving on
\* two goroutines while a goroutine calls the refresh tool; the cache is
\* stale
InitDrain ==
  /\ indexDir = Complete(0) /\ verMarker = IndexSchemaVersion
  /\ tmpDir = Absent /\ cacheFresh = FALSE /\ nextBuild = 1
  /\ lockRec = 1
  /\ holds = [p \in Procs |-> p = 1]
  /\ alive = [p \in Procs |-> TRUE]
  /\ mgr = [p \in Procs |-> p = 1]
  /\ gens = <<NewGen(1, Complete(0))>>
  /\ current = [p \in Procs |-> IF p = 1 THEN 1 ELSE NoGen]
  /\ wg = [p \in Procs |-> 0]
  /\ refreshMu = [p \in Procs |-> "none"]
  /\ calls = [init |-> 1, search |-> 0, refresh |-> 0, close |-> 0]
  /\ th = [t \in {"s1", "s2", "r1"} |-> NewThread(1, Role(t))]

\* the steps of goroutine t
StepDrain(t) ==
  \/ acquireLock(t)
  \/ SearchDocumentation(t)
  \/ SearchDocumentation_arrive(t)
  \/ RefreshDocumentationIndex(t)
  \/ RefreshDocumentationIndex_return(t)
  \/ refreshDocumentationIndex(t)
  \/ indexChunks(t)

NextDrain ==
  \/ \E t \in Threads : StepDrain(t)
  \/ \E g \in Gens : indexChunks_cleanupWait(g)
  \/ \E g \in Gens : indexChunks_cleanupClose(g)

\* the Go scheduler runs every goroutine that can take a step, so every
\* search completes; wg.Wait() returns when the counter reaches zero, however
\* briefly
FairDrain ==
  /\ \A t \in {"s1", "s2", "r1"} : WF_vars(StepDrain(t))
  /\ \A g \in 1..MaxGens :
       SF_vars(indexChunks_cleanupWait(g))
         /\ WF_vars(indexChunks_cleanupClose(g))

SpecDrain == InitDrain /\ [][NextDrain]_vars /\ FairDrain

\* no server process runs: the data directory is empty and no holder exists
InitNoServer ==
  /\ InitHolders
  /\ lockRec = NoFile /\ indexDir = Absent /\ tmpDir = Absent
  /\ verMarker = 0 /\ cacheFresh = FALSE /\ nextBuild = 1

\* a goroutine that is about to call function fn with argument arg
Caller(fn, arg) == [pc |-> fn, arg |-> arg, ret |-> <<>>]

\* a paragraph of n characters: words of the letters a, b, c, the letters
\* shifted by k, with a space after every 50 characters when spaced; it
\* neither starts nor ends with a space
Word(k, n, spaced) ==
  [i \in 1..n |-> IF spaced /\ i % 50 = 25 THEN " "
                  ELSE <<"a", "b", "c">>[((i + k) % 3) + 1]]

\* paragraphs of a section
MaxParas == 2

\* the lengths of the paragraphs: below the overlap (400 characters), below
\* the target (2000), between the target and the maximum (3200), above the
\* maximum by less and by more than the overlap
ParaLens == {300, 1900, 3000, 3300, 3700}

\* the sections SubdivideChunk is called with: up to MaxParas paragraphs,
\* separated by blank lines or as sentences
RECURSIVE SectionOf(_, _, _, _)
SectionOf(lens, k, sep, spaced) ==
  IF Len(lens) = 1 THEN Word(k, lens[1], spaced)
  ELSE Word(k, lens[1], spaced) \o sep
         \o SectionOf(Tail(lens), k + 1, sep, spaced)

Sections ==
  {SectionOf(lens, 0, sep, spaced) :
     lens \in UNION {[1..n -> ParaLens] : n \in 1..MaxParas},
     sep \in {ParaBreak, <<".", " ">>},
     spaced \in BOOLEAN}

\* one call of SubdivideChunk for a section below a page that has a URL
InitSubdivide ==
  /\ InitNoServer
  /\ \E content \in Sections :
       th = [t \in {"parse"} |->
               Caller("SubdivideChunk",
                      [chunk |-> DocChunk(ChunkID(0), <<"A">>, <<"B">>,
                                          <<"B">>, content),
                       breadcrumbParts |-> << <<"A">>, <<"B">> >>,
                       baseURL |-> <<"u">>])]

SubdivideChunk_call(t) ==
  /\ th[t].pc = "SubdivideChunk"
  /\ th' = [th EXCEPT ![t] =
              [@ EXCEPT !.pc = "done",
                        !.ret = SubdivideChunk(th[t].arg.chunk,
                                               th[t].arg.breadcrumbParts,
                                               th[t].arg.baseURL)]]
  /\ UNCHANGED <<calls, lockVars, alive, fsVars, holderVars>>

NextSubdivide == \E t \in Threads : SubdivideChunk_call(t)

SpecSubdivide == InitSubdivide /\ [][NextSubdivide]_vars

\* requested max_results values lie in -MaxRequested..MaxRequested
MaxRequested == 60

\* SearchDocumentation: the size of the search request for the max_results
\* of the input; the field is an int, 0 when the caller left it out
SearchSize(MaxResults) ==
  IF MaxResults = 0 \/ MaxResults > 20 THEN 10 ELSE MaxResults

\* one search with a requested max_results
InitSize ==
  /\ InitNoServer
  /\ \E MaxResults \in (0 - MaxRequested)..MaxRequested :
       th = [t \in {"s1"} |-> Caller("SearchSize", MaxResults)]

SearchDocumentation_size(t) ==
  /\ th[t].pc = "SearchSize"
  /\ th' = [th EXCEPT ![t] = [pc |-> "done", arg |-> th[t].arg,
                              ret |-> SearchSize(th[t].arg)]]
  /\ UNCHANGED <<calls, lockVars, alive, fsVars, holderVars>>

NextSize == \E t \in Threads : SearchDocumentation_size(t)

SpecSize == InitSize /\ [][NextSize]_vars

\* lines of a documentation file
MaxLines == 3

\* the lines a documentation file is made of: a level-1, a level-2 and a
\* level-3 heading, a blank line, a line of text, and a level-1 heading
\* whose title is a link around a link
Lines ==
  {<<"#", " ", "A">>,
   <<"#", "#", " ", "B">>,
   <<"#", "#", "#", " ", "c">>,
   <<>>,
   <<"x">>,
   <<"#", " ", "[", "[", "A", "]", "(", "b", ")", "]", "(", "c", ")">>}

\* the texts of the documentation files of up to MaxLines lines
Docs ==
  {Join(lines, <<NL>>) :
     lines \in UNION {[1..n -> Lines] : n \in 0..MaxLines}}

\* a goroutine that is about to call ParseDocumentation for a file with the
\* given text; sections records the groups of chunks the calls of
\* saveCurrentChunk appended
ParseCaller(text) ==
  [pc |-> "ParseDocumentation", arg |-> text, ret |-> <<>>,
   sections |-> <<>>]

InitParse ==
  /\ InitNoServer
  /\ \E text \in Docs : th = [t \in {"parse"} |-> ParseCaller(text)]

\* the caller after ParseDocumentation has returned the chunks of the
\* sections, in order
Parsed(caller, sections) ==
  [pc |-> "done", arg |-> caller.arg, ret |-> Flatten(sections),
   sections |-> sections]

ParseDocumentation_call(t) ==
  /\ th[t].pc = "ParseDocumentation"
  /\ th' = [th EXCEPT ![t] = Parsed(th[t], ParseSections(th[t].arg))]
  /\ UNCHANGED <<calls, lockVars, alive, fsVars, holderVars>>

NextParse == \E t \in Threads : ParseDocumentation_call(t)

SpecParse == InitParse /\ [][NextParse]_vars

\* sections of a documentation file
MaxSections == 3

\* the content line of a section: a short line; a line above the maximum
\* of 3200 characters, which is split; a line above the maximum that is two
\* short sentences with a long run of spaces between them
Contents ==
  {<<"x">>,
   Word(0, 3700, TRUE),
   <<"x", ".">> \o [i \in 1..3300 |-> " "] \o <<"y">>}

\* the texts of the documentation files of up to MaxSections sections, each
\* a heading of level 1 or 2 and a content line
SectionDocs ==
  LET Heads == {<<"#", " ", "A">>, <<"#", "#", " ", "B">>}
      Secs == {h \o <<NL>> \o c : h \in Heads, c \in Contents}
  IN {Join(secs, <<NL>>) :
        secs \in UNION {[1..n -> Secs] : n \in 1..MaxSections}}

InitIds ==
  /\ InitNoServer
  /\ \E text \in SectionDocs : th = [t \in {"parse"} |-> ParseCaller(text)]

SpecIds == InitIds /\ [][NextParse]_vars

\* chunks given to indexChunks
MaxChunks == 120

\* indexChunks submits the batch at every BatchEvery-th index of the loop
BatchEvery == 100

\* indexChunks, the loop over the chunks: batch.Index of chunk i, then the
\* batch is submitted and a new one begun when i%100 == 0 && i > 0
BatchStep(st, i) ==
  IF i % BatchEvery = 0 /\ i > 0
    THEN [batch |-> <<>>, submitted |-> Append(st.submitted, Append(st.batch, i))]
  ELSE [batch |-> Append(st.batch, i), submitted |-> st.submitted]

\* indexChunks: "Submit remaining" when the batch is not empty
BatchRemaining(st) ==
  IF Len(st.batch) > 0 THEN Append(st.submitted, st.batch) ELSE st.submitted

\* one call of indexChunks with chunks 0..arg-1, before the loop
InitBatch ==
  /\ InitNoServer
  /\ \E n \in 0..MaxChunks :
       th = [t \in {"r1"} |-> [pc |-> "ic_batch", arg |-> n, i |-> 0,
                                batch |-> <<>>, submitted |-> <<>>,
                                ret |-> <<>>]]

\* one iteration of the loop over the chunks
indexChunks_index(t) ==
  /\ th[t].pc = "ic_batch"
  /\ th[t].i < th[t].arg
  /\ th' = [th EXCEPT ![t] = [th[t] EXCEPT
              !.i = th[t].i + 1,
              !.batch = BatchStep(th[t], th[t].i).batch,
              !.submitted = BatchStep(th[t], th[t].i).submitted]]
  /\ UNCHANGED <<calls, lockVars, alive, fsVars, holderVars>>

\* the loop is over: the remaining batch is submitted; ret holds the batches
\* the call submitted, in order
indexChunks_remaining(t) ==
  /\ th[t].pc = "ic_batch"
  /\ th[t].i = th[t].arg
  /\ th' = [th EXCEPT ![t] = [th[t] EXCEPT !.pc = "done",
                                            !.ret = BatchRemaining(th[t])]]
  /\ UNCHANGED <<calls, lockVars, alive, fsVars, holderVars>>

NextBatch ==
  \/ \E t \in Threads : indexChunks_index(t)
  \/ \E t \in Threads : indexChunks_remaining(t)

SpecBatch == InitBatch /\ [][NextBatch]_vars

(***************************************************************************)
(* Properties                                                              *)
(***************************************************************************)

\* goroutine t is a search between wg.Add(1) and wg.Done() that has loaded
\* generation g from the holder
InFlight(t, g) ==
  /\ th[t].op = "search" /\ th[t].pc \in {"sd_search", "sd_done"}
  /\ th[t].gen = g

\* goroutine t takes the step: every step of a goroutine moves its program
\* counter
Acts(t) == th'[t].pc # th[t].pc

\* C1: no generation is closed while a search that loaded it from the holder
\* is still registered in the completion counter, and every search that
\* captured a generation finishes successfully against it
C1_NoCloseWhileSearching ==
  \A t \in Threads : \A g \in Gens :
    InFlight(t, g) =>
      /\ gens[g].closes = 0
      /\ th[t].pc = "sd_done" => th[t].res = "ok"

\* C1 witness: a search is running on a generation that a rebuild has
\* replaced and whose cleanup goroutine is waiting for the counter
C1_Witness ==
  \E t \in Threads : \E g \in Gens :
    /\ InFlight(t, g) /\ gens[g].cleanup = "wait"
    /\ current[procOf(t)] # g /\ current[procOf(t)] # NoGen

\* C3: a search called after indexChunks has swapped generation G into the
\* holder runs against G or a later generation, never an earlier one
C3_SearchSeesPublished ==
  \A t \in Threads : \A g \in Gens :
    InFlight(t, g) => gens[g].build >= th[t].floor

\* C4: the steps of indexChunks change the published index directory only by
\* removing it and by renaming the complete temporary directory onto the
\* free path; they never write into it
C4_RebuildNeverWritesPublished ==
  [][\A t \in Threads :
       (Acts(t) /\ th[t].pc \in {"ic_start", "ic_new", "ic_batch", "ic_close",
                                 "ic_rmold", "ic_rmold2", "ic_rename",
                                 "ic_open", "ic_swap", "ic_ver"}
        /\ indexDir' # indexDir)
       => \/ indexDir' \in {Removing(indexDir.build), Absent}
          \/ /\ indexDir.st = "absent" /\ tmpDir.st = "complete"
             /\ indexDir' = tmpDir]_vars

\* C4 witness: the process has crashed in indexChunks between the removal of
\* the old directory and the rename
C4_Witness ==
  \E t \in Threads :
    /\ ~alive[procOf(t)] /\ th[t].pc = "ic_rename"
    /\ indexDir = Absent /\ tmpDir.st = "complete"

\* C5: when InitializeDocSearch has returned an error, to
\* RegisterDocSearchTools or to SearchDocumentation, the published index
\* directory is not left partially written
C5_PublishedNeverPartial ==
  \A t \in Threads :
    (th[t].pc \in {"rg_ret", "sd_reload"} /\ th[t].ierr)
      => indexDir.st # "partial"

\* C6: up to and including a failure of a batch, indexChunks leaves the
\* published directory, the version marker and the holder's reference alone,
\* and on the failure it removes the temporary directory and returns an error
C6_BatchFailureTouchesNothing ==
  [][\A t \in Threads :
       (Acts(t) /\ th[t].pc \in {"ic_start", "ic_new", "ic_batch"})
       => /\ indexDir' = indexDir /\ verMarker' = verMarker
          /\ current' = current
          /\ (th[t].pc = "ic_batch" /\ th'[t].pc = "rf_indexed")
               => th'[t].xerr = "batch" /\ tmpDir' = Absent]_vars

\* C6 witness: indexChunks has returned the error of a failed batch while an
\* index is published
C6_Witness ==
  \E t \in Threads :
    /\ th[t].pc = "rf_indexed" /\ th[t].xerr = "batch"
    /\ tmpDir = Absent /\ indexDir.st = "complete"
    /\ current[procOf(t)] # NoGen

C2_LockMutualExclusion ==
  Cardinality({p \in Procs : alive[p] /\ holds[p]}) <= 1

\* process q has been at rest since goroutine t called InitializeDocSearch
\* in another process
AtRestDuring(q, t) ==
  /\ q # procOf(t) /\ q \in th[t].rest
  /\ AtRest(q) /\ calls.close = 0

C8_SecondInitTimesOut ==
  \A t \in Threads : \A q \in Procs :
    (th[t].pc = "in_locked" /\ AtRestDuring(q, t))
      => th[t].lerr /\ th[t].elapsed >= lockTimeout

C9_CloseDocSearch ==
  [][\A t \in Threads :
       (Acts(t) /\ (th[t].op = "close" \/ th'[t].op = "close")) =>
         /\ (th[t].pc = "idle" /\ mgr[procOf(t)])
              => /\ current'[procOf(t)] = NoGen
                 /\ th'[t].gen = current[procOf(t)]
         /\ th[t].pc = "idle"
              => th'[t].pc = IF th'[t].gen = NoGen THEN "rl_read" ELSE "cl_wait"
         /\ th[t].pc = "cl_wait"
              => wg[procOf(t)] = 0 /\ th'[t].pc = "cl_close" /\ gens' = gens
         /\ th[t].pc = "cl_close"
              => /\ \A u \in Threads : ~InFlight(u, th[t].gen)
                 /\ gens'[th[t].gen].closes = gens[th[t].gen].closes + 1
                 /\ th'[t].pc = "rl_read"
         /\ th'[t].pc = "cl_ret"
              => /\ th[t].pc \in {"rl_read", "rl_remove"}
                 /\ th'[t].res = IF th[t].cerr THEN "closeErr"
                                 ELSE IF th'[t].rerr THEN "releaseErr"
                                 ELSE "ok"]_vars

\* C9 witness: CloseDocSearch returns the close error after a search was
\* called and it has closed the generation and removed the lock record
C9_Witness ==
  \E t \in Threads :
    /\ th[t].pc = "cl_ret" /\ th[t].res = "closeErr" /\ ~th[t].rerr
    /\ th[t].gen # NoGen /\ gens[th[t].gen].closes = 1
    /\ current[procOf(t)] = NoGen /\ lockRec = NoFile
    /\ calls.search > 0

C11_ReacquireOwnLock ==
  [][\A t \in Threads :
       (Acts(t) /\ th[t].pc = "aq_read" /\ lockRec = procOf(t))
       => /\ th'[t].pc = th[t].lret /\ ~th'[t].lerr
          /\ lockRec' = lockRec]_vars

\* C11 witness: a search that found the holder unset has called
\* InitializeDocSearch, whose acquireLock returned at once on the record of
\* its own process
C11_Witness ==
  \E t \in Threads :
    /\ th[t].op = "search" /\ th[t].pc = "in_locked" /\ ~th[t].lerr
    /\ th[t].lread = procOf(t) /\ th[t].elapsed = 0
    /\ lockRec = procOf(t) /\ holds[procOf(t)]

\* C12: acquireLock sleeps only while the timeout has not elapsed, and when
\* the record names another process that stays running and nobody changes
\* the record during the call, acquireLock returns an error, not before the
\* timeout has elapsed, and the record still names the other process
C12_HeldLockTimesOut ==
  \A t \in Threads :
    /\ th[t].pc = "aq_sleep" => th[t].elapsed < lockTimeout
    /\ (/\ th[t].pc \in {"in_locked", "rf_locked"}
        /\ th[t].lread \in Procs \ {procOf(t)} /\ alive[th[t].lread]
        /\ ~th[t].intf)
         => /\ th[t].lerr /\ th[t].elapsed >= lockTimeout
            /\ lockRec = th[t].lread

\* C12 witness: acquireLock has timed out on the record of another running
\* process, which is still in place
C12_Witness ==
  \E t \in Threads :
    /\ th[t].pc = "in_locked" /\ th[t].lerr /\ ~th[t].intf
    /\ th[t].elapsed >= lockTimeout
    /\ th[t].lread \in Procs \ {procOf(t)} /\ alive[th[t].lread]
    /\ lockRec = th[t].lread

\* C13: releaseLock changes the lock record only when the record names the
\* calling process
C13_ReleaseOnlyOwnRecord ==
  [][\A t \in Threads :
       (Acts(t) /\ th[t].pc \in {"rl_read", "rl_remove"}
        /\ lockRec' # lockRec)
       => lockRec = procOf(t)]_vars

\* goroutine t executes the rebuild pipeline of refreshDocumentationIndex:
\* acquireLock, downloadDocumentation, ParseDocumentation, indexChunks
InPipeline(t) ==
  /\ th[t].op = "refresh"
  /\ th[t].pc \in {"aq_read", "cs_read", "cs_check", "cs_remove", "aq_sleep",
                   "aq_write", "rf_locked", "rf_download", "rf_parse",
                   "ic_start", "ic_new", "ic_batch", "ic_close", "ic_rmold",
                   "ic_rmold2", "ic_rename", "ic_open", "ic_swap", "ic_ver",
                   "rf_indexed"}

\* C14: in each process at most one goroutine at a time executes the rebuild
\* pipeline of refreshDocumentationIndex, and it is the one that holds
\* indexMgr.refreshMu
C14_OneRebuildPerProcess ==
  \A p \in Procs :
    /\ Cardinality({t \in Threads : procOf(t) = p /\ InPipeline(t)}) <= 1
    /\ \A t \in Threads : (procOf(t) = p /\ InPipeline(t)) => refreshMu[p] = t

\* C14 witness: one refresh caller is building the temporary index while the
\* other waits for indexMgr.refreshMu
C14_Witness ==
  \E t, u \in Threads :
    /\ t # u /\ procOf(t) = procOf(u)
    /\ th[t].op = "refresh" /\ th[t].pc = "ic_batch"
    /\ th[u].op = "refresh" /\ th[u].pc = "rf_lock"
    /\ refreshMu[procOf(t)] = t

\* C15: a rebuild that indexChunks completed leaves the cache fresh, and a
\* non-forced caller that gets indexMgr.refreshMu when the cache is fresh
\* returns from the check after the lock: it releases the mutex without
\* acquiring the lock record, downloading, parsing or indexing
C15_RecheckSkipsRebuild ==
  /\ [](\A t \in Threads :
          (th[t].pc = "rf_indexed" /\ th[t].xerr = "nil") => cacheFresh)
  /\ [][\A t \in Threads :
          (Acts(t) /\ th[t].pc = "rf_recheck" /\ ~th[t].force /\ cacheFresh)
          => /\ th'[t].pc = "rd_ret" /\ ~th'[t].locked
             /\ refreshMu'[procOf(t)] = "none"
             /\ UNCHANGED <<lockVars, fsVars, mgr, current, wg, gens,
                            nextBuild>>]_vars

\* C15 witness: a non-forced caller has got indexMgr.refreshMu after another
\* caller published a rebuild, and the cache is fresh
C15_Witness ==
  \E t \in Threads :
    /\ th[t].op = "refresh" /\ th[t].pc = "rf_recheck" /\ ~th[t].force
    /\ refreshMu[procOf(t)] = t /\ cacheFresh
    /\ Published(procOf(t)) >= 1
    /\ \E u \in Threads \ {t} : procOf(u) = procOf(t) /\ "refresh" \in th[u].ops

\* C16: a RefreshDocumentationIndex call with force = false made while the
\* cache is fresh goes straight to its return with updated = false, and
\* neither the call nor the return changes the lock record, the data
\* directory, the holder or the index handles
C16_FreshRefreshIsNoOp ==
  [][\A t \in Threads :
       /\ (/\ Acts(t) /\ th[t].pc = "idle" /\ th'[t].op = "refresh"
           /\ cacheFresh /\ ~th'[t].force)
            => /\ th'[t].pc = "rd_ret" /\ th'[t].res = "fresh"
               /\ UNCHANGED <<lockVars, fsVars, holderVars>>
       /\ (Acts(t) /\ th[t].pc = "rd_ret")
            => UNCHANGED <<lockVars, fsVars, holderVars>>]_vars

\* C16 witness: the second call in a row, made after the first one rebuilt
\* the index, is about to return updated = false
C16_Witness ==
  \E t \in Threads :
    /\ th[t].op = "refresh" /\ th[t].pc = "rd_ret" /\ th[t].res = "fresh"
    /\ calls.refresh = 2 /\ cacheFresh /\ Published(procOf(t)) = 1
    /\ \A u \in Threads \ {t} : th[u].pc = "idle"

\* C17: a search never owns indexMgr.refreshMu, it is inside acquireLock or
\* InitializeDocSearch only when it found the holder's reference unset, and
\* each of its own steps (call, load, query, return) can be taken in every
\* state, also while a rebuild of the same process holds the mutex and the
\* lock record
C17_SearchTakesNoLock ==
  \A t \in Threads :
    /\ th[t].op = "search"
         => /\ refreshMu[procOf(t)] # t
            /\ th[t].pc \notin {"sd_load", "sd_reload", "sd_search", "sd_done"}
                 => th[t].gen = NoGen /\ th[t].iret = "sd_reload"
    /\ (/\ Running(t)
        /\ \/ CanStart(t, "search") /\ Registered(procOf(t))
           \/ th[t].pc \in {"sd_load", "sd_search", "sd_done"})
         => ENABLED SearchDocumentation(t)

\* C17 witness: a search has run its query on the current generation while a
\* rebuild of the same process holds the mutex and the lock record
C17_Witness ==
  \E t, r \in Threads :
    /\ th[t].op = "search" /\ th[t].pc = "sd_done" /\ th[t].res = "ok"
    /\ th[t].gen # NoGen /\ th[t].gen = current[procOf(t)]
    /\ procOf(r) = procOf(t) /\ refreshMu[procOf(t)] = r
    /\ th[r].pc = "ic_batch" /\ th[r].locked /\ lockRec = procOf(t)

\* C18: from the swap of the reference to the return of the refresh tool,
\* every step of the rebuilding goroutine can be taken in every state,
\* whatever the completion counter; a replaced generation that waits for the
\* counter is closed by nobody
C18_RebuildReturnsWithoutDrain ==
  /\ \A t \in Threads :
       (/\ th[t].op = "refresh" /\ Running(t)
        /\ th[t].pc \in {"ic_swap", "ic_ver", "rf_indexed", "rd_ret"})
         => ENABLED (\/ indexChunks(t)
                     \/ refreshDocumentationIndex(t)
                     \/ RefreshDocumentationIndex_return(t))
  /\ \A g \in Gens : gens[g].cleanup = "wait" => gens[g].closes = 0

\* C18 witness: the refresh tool is about to return updated = true while a
\* search still runs on the generation it replaced, which waits for the
\* counter
C18_Witness ==
  \E r, t \in Threads : \E g \in Gens :
    /\ th[r].op = "refresh" /\ th[r].pc = "rd_ret" /\ th[r].res = "updated"
    /\ th[r].locked /\ procOf(t) = procOf(r)
    /\ InFlight(t, g) /\ gens[g].cleanup = "wait" /\ wg[procOf(t)] > 0
    /\ current[procOf(t)] # g

\* C19: a search that loads an unset reference calls InitializeDocSearch,
\* and only there; when that has returned it loads the reference once more
\* and either queries the loaded generation or, when initialization failed
\* or the reference is still unset, returns an error without a query; the
\* return decrements the completion counter
C19_LazyInitOnce ==
  [][\A t \in Threads :
       (Acts(t) /\ th[t].op = "search") =>
         /\ th[t].pc = "sd_load"
              => IF current[procOf(t)] = NoGen
                   THEN /\ th'[t].pc = "in_start"
                        /\ th'[t].iret = "sd_reload"
                   ELSE th'[t].pc = "sd_search"
         /\ th'[t].pc = "in_start" => th[t].pc = "sd_load"
         /\ th[t].pc = "sd_reload"
              => IF th[t].ierr \/ current[procOf(t)] = NoGen
                   THEN /\ th'[t].pc = "sd_done" /\ th'[t].res = "err"
                        /\ th'[t].gen = NoGen
                   ELSE /\ th'[t].pc = "sd_search"
                        /\ th'[t].gen = current[procOf(t)]
         /\ th[t].pc = "sd_done"
              => wg'[procOf(t)] = wg[procOf(t)] - 1]_vars

\* C19 witness: a search returns an error, without a generation, because
\* the InitializeDocSearch it called has failed; the counter still counts it
C19_Witness ==
  \E t \in Threads :
    /\ th[t].op = "search" /\ th[t].pc = "sd_done" /\ th[t].res = "err"
    /\ th[t].ierr /\ th[t].gen = NoGen /\ current[procOf(t)] = NoGen
    /\ wg[procOf(t)] = 1

InitPcs == {"in_locked", "in_ver", "in_open", "in_store", "in_rm", "in_rm2",
            "in_rmver", "ex_mkdir", "ex_files", "ex_docs", "ex_ver"}

\* C21 as stated: an InitializeDocSearch call that found the local index
\* with the expected version but could not open it never returns an error
C21_CorruptIndexNeverFails ==
  [][\A t \in Threads :
       (Acts(t) /\ th[t].corrupt /\ th[t].pc \in InitPcs
          /\ th'[t].pc = th[t].iret) => ~th'[t].ierr]_vars

\* C21: when bleve.Open fails on a local index with the expected version,
\* InitializeDocSearch does not return that error: it removes the index
\* directory, then the marker, and starts extractEmbeddedIndex. From there
\* on, as in every call that extracts, it opens the extracted index after
\* the extraction, publishes the handle it opened and returns nil; the only
\* errors it returns are those of the extraction and of opening the
\* extracted index
C21_CorruptIndexRecovered ==
  [][\A t \in Threads :
       Acts(t) =>
         /\ (th[t].pc = "in_open" /\ ~th[t].extracted
               /\ th'[t].pc # "in_store")
              => th'[t].pc = "in_rm" /\ th'[t].corrupt
         /\ th[t].corrupt =>
              /\ th[t].pc \in {"in_rm", "in_rm2", "in_rmver", "ex_mkdir"}
              /\ th[t].pc = "in_rm"
                   => /\ th'[t].pc = "in_rm2" /\ th'[t].corrupt
                      /\ indexDir' \in {Removing(indexDir.build), Absent}
              /\ th[t].pc = "in_rm2"
                   => /\ th'[t].pc = "in_rmver" /\ th'[t].corrupt
                      /\ indexDir' = Absent
              /\ th[t].pc = "in_rmver"
                   => /\ th'[t].pc = "ex_mkdir" /\ th'[t].corrupt
                      /\ verMarker' = 0
              /\ th[t].pc = "ex_mkdir"
                   => \/ th'[t].pc = "ex_files" /\ indexDir'.st # "absent"
                      \/ th'[t].pc = th[t].iret /\ th'[t].ierr
         /\ th[t].pc = "ex_files"
              => \/ th'[t].pc = "ex_docs"
                 \/ th'[t].pc = th[t].iret /\ th'[t].ierr
         /\ th[t].pc = "ex_docs"
              => \/ th'[t].pc = "ex_ver"
                 \/ th'[t].pc = th[t].iret /\ th'[t].ierr
         /\ th[t].pc = "ex_ver"
              => th'[t].pc = "in_open" /\ th'[t].extracted
         /\ (th[t].pc = "in_open" /\ th[t].extracted)
              => \/ /\ th'[t].pc = "in_store" /\ indexDir.st = "complete"
                    /\ gens' = Append(gens, NewGen(procOf(t), indexDir))
                    /\ th'[t].igen = Len(gens')
                 \/ th'[t].pc = th[t].iret /\ th'[t].ierr
         /\ th[t].pc = "in_store"
              => /\ current'[procOf(t)] = th[t].igen
                 /\ th'[t].pc = th[t].iret /\ ~th'[t].ierr]_vars

\* C21 witness: after bleve.Open had failed on a local index with the
\* expected version, InitializeDocSearch has removed the index directory and
\* the marker and starts to extract the embedded index
C21_Witness ==
  \E t \in Threads :
    /\ th[t].corrupt /\ th[t].pc = "ex_mkdir" /\ ~th[t].extracted
    /\ indexDir = Absent /\ verMarker = 0

\* generation g was opened from the published index directory as it stands
\* now, and is open
BackedByIndexDir(g) ==
  /\ indexDir.st = "complete" /\ gens[g].build = indexDir.build
  /\ gens[g].closes = 0

\* C22: while a generation is the current reference of its holder, or is
\* loaded by a search that has not finished, no step removes or changes the
\* directory it was opened from
C22_GenerationDirNeverTouched ==
  [][\A g \in Gens :
       (/\ BackedByIndexDir(g)
        /\ \/ current[gens[g].proc] = g
           \/ \E t \in Threads : InFlight(t, g))
       => indexDir' = indexDir]_vars

\* C23: every generation that a swap of indexChunks has replaced, and whose
\* cleanup goroutine waits for the completion counter, is eventually closed
\* by that goroutine
C23_ReplacedEventuallyClosed ==
  \A g \in 1..MaxGens :
    (g \in Gens /\ gens[g].cleanup = "wait")
      ~> (g \in Gens /\ gens[g].closes > 0)

\* the paragraphs of a section that SubdivideChunk does not force-split
UnsplitParagraphs(content) ==
  LET paragraphs == Paragraphs(content)
  IN {p \in {TrimSpace(paragraphs[i]) : i \in 1..Len(paragraphs)} :
        EstimateTokens(p) <= MaxChunkTokens}

\* C24: every chunk SubdivideChunk returns carries the token count of its
\* content (length divided by CharsPerToken), and that count is at most
\* MaxChunkTokens plus the token count of the largest paragraph of the
\* section that is not force-split
C24_TokenCountBounded ==
  \A t \in Threads :
    th[t].pc = "done" =>
      \A i \in 1..Len(th[t].ret) :
        LET c == th[t].ret[i]
            slack == Greatest({0} \cup {EstimateTokens(p) :
                       p \in UnsplitParagraphs(th[t].arg.chunk.Content)})
        IN /\ c.TokenCount = Len(c.Content) \div CharsPerToken
           /\ c.TokenCount <= MaxChunkTokens + slack

\* C24 witness: SubdivideChunk has returned a sub-chunk larger than
\* MaxChunkTokens: an overlap in front of one paragraph of almost the
\* maximum
C24_Witness ==
  \E t \in Threads :
    /\ th[t].pc = "done" /\ Len(th[t].ret) > 1
    /\ \E i \in 1..Len(th[t].ret) :
         th[t].ret[i].TokenCount > MaxChunkTokens

\* the trailing OverlapTokens * CharsPerToken characters of content, all of
\* it when it is shorter
KnownOverlap(content) ==
  IF Len(content) > OverlapTokens * CharsPerToken
    THEN Overlap(content, OverlapTokens * CharsPerToken)
  ELSE content

\* the content of sub-chunk i without the overlap it repeats from sub-chunk
\* i - 1
WithoutOverlap(subchunks, i) ==
  IF i > 1 /\ HasPrefix(subchunks[i].Content,
                        KnownOverlap(subchunks[i - 1].Content))
    THEN Tail_(subchunks[i].Content,
               Len(KnownOverlap(subchunks[i - 1].Content)) + 1)
  ELSE subchunks[i].Content

\* C25: when SubdivideChunk has split a section, the contents of the
\* sub-chunks, each but the first without the overlap it repeats, put
\* together in order are the content of the section
C25_SubchunksReproduceSection ==
  \A t \in Threads :
    (th[t].pc = "done" /\ Len(th[t].ret) > 1) =>
      Flatten([i \in 1..Len(th[t].ret) |-> WithoutOverlap(th[t].ret, i)])
        = th[t].arg.chunk.Content

\* C30: when SubdivideChunk has split a section, every sub-chunk but the
\* first begins with the trailing OverlapTokens * CharsPerToken characters
\* of the content of the sub-chunk before it
C30_SubchunksOverlap ==
  \A t \in Threads :
    (th[t].pc = "done" /\ Len(th[t].ret) > 1) =>
      \A i \in 2..Len(th[t].ret) :
        HasPrefix(th[t].ret[i].Content,
                  KnownOverlap(th[t].ret[i - 1].Content))

\* C29: the size SearchDocumentation gives the search request is at least 1
\* and at most 20, and it is 10 when max_results is 0 or above 20
C29_ResultSizeBounded ==
  \A t \in Threads :
    (th[t].pc = "done" /\ th[t].arg \in Int) =>
      /\ th[t].ret >= 1 /\ th[t].ret <= 20
      /\ (th[t].arg = 0 \/ th[t].arg > 20) => th[t].ret = 10

\* C26: no chunk ParseDocumentation returns has "](" in its page, category,
\* subcategory or URL
C26_NoLinkMarkupInTitles ==
  \A t \in Threads :
    th[t].pc = "done" =>
      \A i \in 1..Len(th[t].ret) :
        /\ ~Contains(th[t].ret[i].Page, <<"]", "(">>)
        /\ ~Contains(th[t].ret[i].Category, <<"]", "(">>)
        /\ ~Contains(th[t].ret[i].Subcategory, <<"]", "(">>)
        /\ ~Contains(th[t].ret[i].URL, <<"]", "(">>)

\* the elements of a finite set of numbers in ascending order
RECURSIVE Ascending(_)
Ascending(S) ==
  IF S = {} THEN <<>> ELSE <<Least(S)>> \o Ascending(S \ {Least(S)})

\* line is a heading of level 1 or 2
IsHeading(line) ==
  /\ HasPrefix(TrimSpace(line), <<"#">>)
  /\ ~HasPrefix(TrimSpace(line), <<"#", "#", "#">>)

\* the non-blank lines after heading i and before the next heading of level
\* 1 or 2
SectionLines(lines, i) ==
  {j \in (i + 1)..Len(lines) :
     /\ TrimSpace(lines[j]) # <<>>
     /\ \A k \in (i + 1)..j : ~IsHeading(lines[k])}

\* the headings of level 1 or 2 that have content, in document order
SectionHeadings(lines) ==
  Ascending({i \in 1..Len(lines) :
               IsHeading(lines[i]) /\ SectionLines(lines, i) # {}})

C28_ChunkIdsUnique ==
  \A t \in Threads :
    th[t].pc = "done" =>
      \A i, j \in 1..Len(th[t].ret) :
        i # j => th[t].ret[i].ID # th[t].ret[j].ID

\* C40: no chunk that SubdivideChunk returns has empty content
C40_NoEmptySubchunk ==
  \A t \in Threads :
    (th[t].pc = "done" /\ "chunk" \in DOMAIN th[t].arg) =>
      \A i \in 1..Len(th[t].ret) : th[t].ret[i].Content # <<>>

\* C31: a rebuild takes each step of indexChunks only after the step before
\* it has succeeded: the removal of the old published directory after the
\* temporary index is built and closed, the rename after the removal, the
\* reopening from the published path after the rename, the swap of the
\* holder's reference after the reopening, the writing of the version
\* marker after the swap, and it returns success only after that
C31_RebuildStepsInOrder ==
  [][\A t \in Threads :
       th'[t].pc # th[t].pc =>
         /\ th'[t].pc = "ic_rmold" =>
              /\ th[t].pc = "ic_close"
              /\ tmpDir' = Complete(th[t].build)
              /\ indexDir' = indexDir
         /\ th'[t].pc = "ic_rename" =>
              /\ th[t].pc = "ic_rmold2"
              /\ indexDir' = Absent
              /\ tmpDir' = Complete(th[t].build)
         /\ th'[t].pc = "ic_open" =>
              /\ th[t].pc = "ic_rename"
              /\ indexDir' = Complete(th[t].build) /\ tmpDir' = Absent
              /\ gens' = gens
         /\ th'[t].pc = "ic_swap" =>
              /\ th[t].pc = "ic_open"
              /\ Len(gens') = Len(gens) + 1 /\ th'[t].igen = Len(gens')
              /\ gens'[th'[t].igen].build = th[t].build
              /\ current' = current
         /\ th'[t].pc = "ic_ver" =>
              /\ th[t].pc = "ic_swap"
              /\ current'[th[t].proc] = th[t].igen
              /\ verMarker' = verMarker
         /\ (th[t].pc \in {"ic_start", "ic_new", "ic_batch", "ic_close",
                           "ic_rmold", "ic_rmold2", "ic_rename", "ic_open",
                           "ic_swap", "ic_ver"}
             /\ th'[t].pc = "rf_indexed" /\ th'[t].xerr = "nil") =>
              th[t].pc = "ic_ver"]_vars

\* a rebuild has returned success: its index is published, its generation
\* is the current reference and the version marker is written
C31_Witness ==
  \E t \in Threads :
    /\ th[t].pc = "rf_indexed" /\ th[t].xerr = "nil"
    /\ indexDir = Complete(th[t].build)
    /\ current[th[t].proc] = th[t].igen
    /\ verMarker = IndexSchemaVersion

\* the calls of SearchDocumentation in process p that have registered with
\* indexMgr.wg.Add(1) and have not returned
Searching(p) ==
  {t \in Threads : th[t].proc = p /\ th[t].op = "search" /\ th[t].pc # "idle"}

\* C32: the counter of in-flight searches of a process is the number of its
\* SearchDocumentation calls between registration and return; it is never
\* negative, and a search registers before it loads the reference
C32_CounterCountsSearches ==
  \A p \in Procs :
    /\ wg[p] = Cardinality(Searching(p))
    /\ wg[p] >= 0
    /\ \A t \in Threads :
         (th[t].op = "search" /\ th[t].gen # NoGen) => t \in Searching(th[t].proc)

\* a search is about to return the error of a failed lazy initialization
\* and is still counted
C32_Witness ==
  \E t \in Threads :
    /\ th[t].op = "search" /\ th[t].pc = "sd_done" /\ th[t].res = "err"
    /\ th[t].ierr
    /\ wg[th[t].proc] = 1

\* C33: indexChunks submits every chunk in exactly one batch, once, and no
\* batch holds more than 100 documents
C33_BatchesCoverChunks ==
  \A t \in Threads :
    (th[t].pc = "done" /\ th[t].arg \in Nat) =>
      /\ \A c \in 0..(th[t].arg - 1) :
           Cardinality({<<b, k>> \in (1..Len(th[t].ret)) \X (1..(MaxChunks + 1)) :
                          k <= Len(th[t].ret[b]) /\ th[t].ret[b][k] = c}) = 1
      /\ \A b \in 1..Len(th[t].ret) : Len(th[t].ret[b]) <= 100

\* C34: no generation's Close is invoked more than once, whatever the
\* interleaving of the publishes of rebuilds, their background goroutines
\* and CloseDocSearch
C34_ClosedAtMostOnce ==
  \A g \in Gens : gens[g].closes <= 1

\* a rebuild has published a generation, its background goroutine has closed
\* the generation it replaced and CloseDocSearch has closed the published one
C34_Witness ==
  \E g, h \in Gens :
    /\ g # h
    /\ gens[g].cleanup = "done" /\ gens[g].closes = 1
    /\ gens[h].swapped /\ gens[h].closes = 1
    /\ \E t \in Threads : th[t].op = "close" /\ th[t].gen = h

\* C35: every generation opened by InitializeDocSearch or indexChunks in a
\* running process is, once its opener has stored it, the holder's current
\* reference, awaiting its close by a cleanup goroutine or by CloseDocSearch,
\* or closed: no open generation is overwritten in the holder without being
\* scheduled for close
C35_NoGenerationLost ==
  \A g \in Gens :
    alive[gens[g].proc] =>
      \/ \E t \in Threads : /\ th[t].pc \in {"in_store", "ic_swap"}
                            /\ th[t].igen = g
      \/ current[gens[g].proc] = g
      \/ gens[g].cleanup \in {"wait", "close"}
      \/ \E t \in Threads : /\ th[t].pc \in {"cl_wait", "cl_close"}
                            /\ th[t].gen = g
      \/ gens[g].closes > 0

\* C36: when CloseDocSearch has taken the published generation from the
\* holder of an initialized server and returns without an error, the
\* holder's reference is unset, no generation of the process is open and the
\* lock record does not name the process, also when a search was in flight
\* during the shutdown or arrived concurrently with it
C36_ShutdownIsFinal ==
  \A t \in Threads :
    (/\ th[t].pc = "cl_ret" /\ ~th[t].cerr /\ ~th[t].rerr /\ Running(t)
     /\ th[t].gen # NoGen /\ Registered(procOf(t))) =>
      /\ current[procOf(t)] = NoGen
      /\ \A g \in Gens : gens[g].proc = procOf(t) => gens[g].closes > 0
      /\ lockRec # procOf(t)

\* C37: whenever indexChunks returns an error, whatever step failed, the
\* generation the holder had published is still the current one, open, and
\* the published index path still holds the intact directory it was opened
\* on
C37_FailedRebuildKeepsIndex ==
  \A t \in Threads :
    (/\ th[t].pc = "rf_indexed" /\ th[t].xerr # "nil" /\ Running(t)
     /\ current[procOf(t)] # NoGen) =>
      /\ gens[current[procOf(t)]].closes = 0
      /\ indexDir = Complete(gens[current[procOf(t)]].build)

\* C38: when a non-forced refreshDocumentationIndex found the cache stale,
\* downloaded the documentation and then failed in indexChunks, the cache is
\* not left marked fresh: needsRefresh() still reports that a refresh is
\* needed, so that the next non-forced refresh attempts the rebuild
C38_FailedRefreshLeavesCacheStale ==
  \A t \in Threads :
    (/\ th[t].pc = "rd_ret" /\ th[t].res = "err" /\ Running(t)
     /\ th[t].xerr # "nil" /\ ~th[t].force) => needsRefresh

\* C39: RefreshDocumentationIndex returns Updated = true only when that same
\* call has built a new index and published it as a generation; a call whose
\* refreshDocumentationIndex returned early because the cache is fresh
\* reports Updated = false
C39_UpdatedMeansPublished ==
  \A t \in Threads :
    (th[t].pc = "rd_ret" /\ th[t].res = "updated" /\ Running(t)) =>
      /\ th[t].build > 0
      /\ th[t].igen \in Gens
      /\ gens[th[t].igen].swapped
      /\ gens[th[t].igen].build = th[t].build

====
